---------------------------- MODULE Spec2Model ----------------------------
(***************************************************************************)
(* automqtt: a virtual path layer (mqttfs.py) over a static handler tree,  *)
(* a process-wide classification cache and the message handlers            *)
(* (handlers.py), and the dispatcher callbacks (__init__.py).              *)
(*                                                                         *)
(* Representation of text.  A str is the sequence of its '/'-separated     *)
(* tokens: "a/b" is <<"a","b">>, "a//b" is <<"a","","b">>, "a/b/" is        *)
(* <<"a","b","">>, "/a" is <<"","a">> and "" is <<"">>.  The mapping is a  *)
(* bijection between strings and non-empty token sequences, so the posix   *)
(* parser functions below are translated on tokens without loss.           *)
(*                                                                         *)
(* Representation of payload bytes.  Bytes are represented by their JSON   *)
(* syntax tree when they are a JSON document and by their characters       *)
(* otherwise; integer and time fields are parsed character by character.   *)
(***************************************************************************)
EXTENDS Integers, Sequences, FiniteSets, TLC

(***************************************************************************)
(* Bounds of the model.                                                    *)
(***************************************************************************)
\* the messages delivered in a run of Spec
MaxMessages == 2
\* the messages delivered in a recorded run (SpecPower, SpecTimer)
MaxRun == 3
\* the cache lookups of a run of the path layer (SpecFs)
MaxLookups == 2
\* the calls made on one MQTTPath object
MaxCalls == 2
\* the messages delivered in a run of time payloads (SpecTime)
MaxTime == 1
\* the messages delivered in a recorded run of reports (SpecReports)
MaxReports == 2
\* the messages from outside in a run with the broker (SpecCascade)
MaxExternal == 1
\* the deliveries the broker makes for one message from outside
MaxCascade == 5

(***************************************************************************)
(* posixpath, as used through PosixParser (mqttfs.py 17-41).               *)
(***************************************************************************)
sep == "/"
curdir == "."
pardir == ".."

EmptyText == <<"">>

StartsWithSep(t) == Len(t) >= 2 /\ t[1] = ""
EndsWithSep(t) == Len(t) >= 2 /\ t[Len(t)] = ""
AllSeps(t) == Len(t) >= 2 /\ \A i \in 1..Len(t) : t[i] = ""

\* a + b for str
StrConcat(a, b) ==
    SubSeq(a, 1, Len(a) - 1) \o <<a[Len(a)] \o b[1]>> \o Tail(b)

\* posixpath.join(a, b)
Join2(a, b) ==
    IF StartsWithSep(b) THEN b
    ELSE IF a = EmptyText \/ EndsWithSep(a) THEN StrConcat(a, b)
    ELSE a \o b

RECURSIVE JoinFrom(_, _)
JoinFrom(acc, rest) ==
    IF rest = <<>> THEN acc ELSE JoinFrom(Join2(acc, Head(rest)), Tail(rest))

\* posixpath.join(a, *p)
join(segments) == JoinFrom(Head(segments), Tail(segments))

RECURSIVE NormComps(_, _, _)
NormComps(comps, new_comps, initial_slashes) ==
    IF comps = <<>> THEN new_comps
    ELSE LET comp == Head(comps)
             n == Len(new_comps)
         IN  IF comp \in {"", curdir}
             THEN NormComps(Tail(comps), new_comps, initial_slashes)
             ELSE IF \/ comp # pardir
                     \/ (initial_slashes = 0 /\ n = 0)
                     \/ (n > 0 /\ new_comps[n] = pardir)
             THEN NormComps(Tail(comps), Append(new_comps, comp), initial_slashes)
             ELSE IF n > 0
             THEN NormComps(Tail(comps), SubSeq(new_comps, 1, n - 1), initial_slashes)
             ELSE NormComps(Tail(comps), new_comps, initial_slashes)

\* posixpath.normpath(path)
normpath(path) ==
    LET slashes(p) ==
            IF ~StartsWithSep(p) THEN 0
            ELSE IF Len(p) >= 3 /\ p[2] = "" /\ ~(Len(p) >= 4 /\ p[3] = "")
                 THEN 2 ELSE 1
        \* path = sep * initial_slashes + sep.join(comps); return path or dot
        joined(initial_slashes, comps) ==
            IF initial_slashes = 0 /\ comps = <<>> THEN <<curdir>>
            ELSE [i \in 1..initial_slashes |-> ""]
                 \o (IF comps = <<>> THEN EmptyText ELSE comps)
        from(p, initial_slashes) ==
            joined(initial_slashes, NormComps(p, <<>>, initial_slashes))
    IN  IF path = EmptyText THEN <<curdir>> ELSE from(path, slashes(path))

RECURSIVE RStripSep(_)
RStripSep(t) ==
    IF Len(t) >= 2 /\ t[Len(t)] = "" THEN RStripSep(SubSeq(t, 1, Len(t) - 1)) ELSE t

\* posixpath.split(p): <<head, tail>>
split(p) ==
    LET stripped(head) == IF head # EmptyText /\ ~AllSeps(head) THEN RStripSep(head) ELSE head
    IN  << stripped(IF Len(p) = 1 THEN EmptyText ELSE Append(SubSeq(p, 1, Len(p) - 1), "")),
           p[Len(p)] >>

\* the working directory of the process, which posixpath.abspath consults
Cwd == <<"", "srv">>

abspath(path) == normpath(Join2(Cwd, path))

\* [x for x in abspath(p).lstrip(sep).split(sep) if x]
NonEmptyComps(t) == SelectSeq(t, LAMBDA x : x # "")

RECURSIVE CommonPrefixLen(_, _)
CommonPrefixLen(a, b) ==
    IF a = <<>> \/ b = <<>> \/ Head(a) # Head(b) THEN 0
    ELSE 1 + CommonPrefixLen(Tail(a), Tail(b))

\* posixpath.relpath(path, start), for a non-empty path
relpath(path, start) ==
    LET joined(rel_list) ==
            IF rel_list = <<>> THEN <<curdir>>
            ELSE join([k \in 1..Len(rel_list) |-> <<rel_list[k]>>])
        rel(start_list, path_list, i) ==
            joined([k \in 1..(Len(start_list) - i) |-> pardir]
                   \o SubSeq(path_list, i + 1, Len(path_list)))
        from(start_list, path_list) ==
            rel(start_list, path_list, CommonPrefixLen(start_list, path_list))
    IN  from(NonEmptyComps(abspath(start)), NonEmptyComps(abspath(path)))

(***************************************************************************)
(* Handler references and tree items (mqttfs.py 12-14).  A tree item is a  *)
(* dict (dir = TRUE, entries in insertion order) or a callable (dir =      *)
(* FALSE, handler).                                                        *)
(***************************************************************************)
None == [fn |-> "None", agg |-> "", device |-> "", index |-> 0]

\* PowerStatusBehaviour.get_handler(device)
PowerHandler(agg, device) == [fn |-> "handle_power", agg |-> agg, device |-> device, index |-> 0]
\* TimerStatusBehaviour.get_handler(device)
TimerHandler(agg, device) == [fn |-> "handle_timer", agg |-> agg, device |-> device, index |-> 0]
\* time_unmarshalled(timer_index, topic)
time_unmarshalled(timer_index, topic) ==
    [fn |-> "unmarshal", agg |-> "", device |-> topic, index |-> timer_index]
time_marshalled == [fn |-> "time_marshalled", agg |-> "", device |-> "", index |-> 0]
retain == [fn |-> "retain", agg |-> "", device |-> "", index |-> 0]
noop == [fn |-> "noop", agg |-> "", device |-> "", index |-> 0]

Dir(entries) == [dir |-> TRUE, entries |-> entries, handler |-> None]
Leaf(h) == [dir |-> FALSE, entries |-> <<>>, handler |-> h]

callable(item) == ~item.dir
Names(item) == [i \in 1..Len(item.entries) |-> item.entries[i][1]]
HasName(item, name) == \E i \in 1..Len(item.entries) : item.entries[i][1] = name
Child(item, name) ==
    item.entries[CHOOSE i \in 1..Len(item.entries) : item.entries[i][1] = name][2]

(***************************************************************************)
(* devices.py                                                              *)
(***************************************************************************)
LUCE_PW == "LUCE-pw"
PLUG_1 == "tasmota-plug-1"
PLUG_2 == "tasmota-plug-2"
PLUG_3 == "tasmota-plug-3"
ONLYFANS == "onlyfans"
TASMOTAS == "tasmotas"

Tasmotas == <<LUCE_PW, PLUG_1, PLUG_2, PLUG_3>>
Onlyfans == <<PLUG_2, PLUG_3>>

(***************************************************************************)
(* str(int) and int(bytes) on characters.                                  *)
(***************************************************************************)
Digits == <<"0", "1", "2", "3", "4", "5", "6", "7", "8", "9">>

IsDigit(c) == \E d \in 1..10 : Digits[d] = c
DigitValue(c) == (CHOOSE d \in 1..10 : Digits[d] = c) - 1

RECURSIVE NatChars(_)
NatChars(n) == IF n < 10 THEN <<Digits[n + 1]>> ELSE Append(NatChars(n \div 10), Digits[(n % 10) + 1])

\* str(n), as characters
IntChars(n) == IF n < 0 THEN <<"-">> \o NatChars(-n) ELSE NatChars(n)

RECURSIVE CharsToStr(_)
CharsToStr(cs) == IF cs = <<>> THEN "" ELSE Head(cs) \o CharsToStr(Tail(cs))

\* f"{n}", as one token of text
IntStr(n) == CharsToStr(IntChars(n))

RECURSIVE DigitsValue(_, _)
DigitsValue(cs, acc) ==
    IF cs = <<>> THEN acc ELSE DigitsValue(Tail(cs), 10 * acc + DigitValue(Head(cs)))

AllDigits(cs) == cs # <<>> /\ \A i \in 1..Len(cs) : IsDigit(cs[i])

\* int(chars) succeeds: an optional sign and at least one digit
IsIntText(cs) ==
    /\ cs # <<>>
    /\ IF Head(cs) \in {"-", "+"} THEN AllDigits(Tail(cs)) ELSE AllDigits(cs)

\* int(chars), for IsIntText(chars)
IntOfText(cs) ==
    IF Head(cs) = "-" THEN 0 - DigitsValue(Tail(cs), 0)
    ELSE IF Head(cs) = "+" THEN DigitsValue(Tail(cs), 0)
    ELSE DigitsValue(cs, 0)

(***************************************************************************)
(* Stateful handlers (__init__.py 15-17) and their construction            *)
(* (handlers.py 172-177, 204-212).                                         *)
(***************************************************************************)
PowerBehaviours == {"tasmotas_power", "onlyfans_power"}
TimerBehaviours == {"onlyfans_timer"}

BehaviourTopic(b) == IF b = "tasmotas_power" THEN TASMOTAS ELSE ONLYFANS
BehaviourEnum(b) == IF b = "tasmotas_power" THEN Tasmotas ELSE Onlyfans
BehaviourTimerIndex(b) == 1

Members(enum) == {enum[i] : i \in 1..Len(enum)}
IndexOf(enum, d) == CHOOSE i \in 1..Len(enum) : enum[i] = d

\* PowerStatusBehaviour.__init__: the seeded state and the target topic
PowerStatusInit(b) == [d \in Members(BehaviourEnum(b)) |-> FALSE]
PowerStatusTopic(b) == <<"stat", BehaviourTopic(b), "POWER">>

\* TimerStatusBehaviour.__init__: the seeded state and the target topic
TimerStatusInit(b) ==
    [d \in Members(BehaviourEnum(b)) |-> (IndexOf(BehaviourEnum(b), d) - 1) % 24]
TimerStatusTopic(b) ==
    <<"stat", BehaviourTopic(b), "TIMER" \o IntStr(BehaviourTimerIndex(b)), "unmarshalled">>

\* time_unmarshalled: topic_path and timer_name
UnmarshalTopicPath(h) == <<"stat", h.device, "TIMER" \o IntStr(h.index), "unmarshalled">>
UnmarshalTimerName(h) == "Timer" \o IntStr(h.index)

(***************************************************************************)
(* Handler tables.  handler_tree is the table of __init__.py 21-91; the    *)
(* tree is the userdata handed to the callbacks, so the callbacks are also *)
(* run over other tables: Wiring(t) routes every kind of handler and puts  *)
(* at each publish target a topic (t = "dir"), a handler (t = "leaf") or   *)
(* nothing (t = "missing").                                                *)
(***************************************************************************)
E(name, item) == <<name, item>>

handler_tree ==
    Dir(<<
      E("stat", Dir(<<
        E(LUCE_PW, Dir(<<
          E("POWER", Dir(<<E("global-power", Leaf(PowerHandler("tasmotas_power", LUCE_PW)))>>)) >>)),
        E(PLUG_1, Dir(<<
          E("POWER", Dir(<<E("global-power", Leaf(PowerHandler("tasmotas_power", PLUG_1)))>>)) >>)),
        E(PLUG_2, Dir(<<
          E("POWER", Dir(<<
            E("global-power", Leaf(PowerHandler("tasmotas_power", PLUG_2))),
            E("onlyfans-power", Leaf(PowerHandler("onlyfans_power", PLUG_2))) >>)),
          E("TIMER", Dir(<<
            E("retain", Leaf(retain)),
            E("retained", Dir(<<E("unmarshalling_1", Leaf(time_unmarshalled(1, PLUG_2)))>>)) >>)),
          E("TIMERS", Dir(<<
            E("retain", Leaf(retain)),
            E("retained", Dir(<<E("unmarshalling_1", Leaf(time_unmarshalled(1, PLUG_2)))>>)) >>)),
          E("TIMER1", Dir(<<
            E("unmarshalled", Dir(<<
              E("onlyfans-timer", Leaf(TimerHandler("onlyfans_timer", PLUG_2))) >>)) >>)) >>)),
        E(PLUG_3, Dir(<<
          E("POWER", Dir(<<
            E("global-power", Leaf(PowerHandler("tasmotas_power", PLUG_3))),
            E("onlyfans-power", Leaf(PowerHandler("onlyfans_power", PLUG_3))) >>)),
          E("TIMER", Dir(<<
            E("retain", Leaf(retain)),
            E("retained", Dir(<<E("unmarshalling_1", Leaf(time_unmarshalled(1, PLUG_3)))>>)),
            E("unmarshalled", Dir(<<
              E("onlyfans-timer", Leaf(TimerHandler("onlyfans_timer", PLUG_3))) >>)) >>)),
          E("TIMERS", Dir(<<
            E("retain", Leaf(retain)),
            E("retained", Dir(<<E("unmarshalling_1", Leaf(time_unmarshalled(1, PLUG_3)))>>)) >>)),
          E("TIMER1", Dir(<<
            E("unmarshalled", Dir(<<
              E("onlyfans-timer", Leaf(TimerHandler("onlyfans_timer", PLUG_3))) >>)) >>)) >>)),
        E(ONLYFANS, Dir(<<
          E("POWER", Dir(<<>>)),
          E("TIMER1", Dir(<<E("unmarshalled", Dir(<<>>))>>)) >>)),
        E(TASMOTAS, Dir(<<E("POWER", Dir(<<>>))>>)) >>)),
      E("cmnd", Dir(<<
        E(PLUG_2, Dir(<<E("Timer1", Dir(<<>>))>>)),
        E(PLUG_3, Dir(<<E("Timer1", Dir(<<>>))>>)),
        E(ONLYFANS, Dir(<<E("Timer1", Dir(<<>>))>>)) >>)),
      E("cmnde", Dir(<<
        E(PLUG_2, Dir(<<E("Timer1", Dir(<<E("marshalling", Leaf(time_marshalled))>>))>>)),
        E(PLUG_3, Dir(<<E("Timer1", Dir(<<E("marshalling", Leaf(time_marshalled))>>))>>)),
        E(ONLYFANS, Dir(<<E("Timer1", Dir(<<E("marshalling", Leaf(time_marshalled))>>))>>)) >>))
    >>)

\* the entry of a publish target: a topic, a handler, or no entry
Target(name, t) ==
    IF t = "dir" THEN <<E(name, Dir(<<>>))>>
    ELSE IF t = "leaf" THEN <<E(name, Leaf(noop))>>
    ELSE <<>>

Wiring(t) ==
    Dir(<<
      E("stat", Dir(<<
        E(PLUG_2, Dir(<<
          E("POWER", Dir(<<
            E("onlyfans-power", Leaf(PowerHandler("onlyfans_power", PLUG_2))),
            E("retain", Leaf(retain)) >> \o Target("retained", t))),
          E("TIMER", Dir(<<
            E("onlyfans-timer", Leaf(TimerHandler("onlyfans_timer", PLUG_2))),
            E("sub", Dir(<<E("deep", Leaf(noop))>>)),
            E("last", Leaf(noop)) >>)),
          E("TIMERS", Dir(<<
            E("unmarshalling_2", Leaf(time_unmarshalled(2, PLUG_2))),
            E("last", Leaf(noop)) >>)),
          E("TIMER2", Dir(Target("unmarshalled", t))) >>)),
        E(PLUG_3, Dir(<<
          E("POWER", Dir(<<
            E("onlyfans-power", Leaf(PowerHandler("onlyfans_power", PLUG_3))) >>)),
          E("TIMER", Dir(<<
            E("onlyfans-timer", Leaf(TimerHandler("onlyfans_timer", PLUG_3))) >>)) >>)),
        E(ONLYFANS, Dir(Target("POWER", t) \o <<E("TIMER1", Dir(Target("unmarshalled", t)))>>)) >>)),
      E("cmnd", Dir(<<E(PLUG_2, Dir(Target("Timer1", t)))>>)),
      E("cmnde", Dir(<<
        E(PLUG_2, Dir(<<
          E("Timer1", Dir(<<
            E("marshalling", Leaf(time_marshalled)),
            E("last", Leaf(noop)) >>)) >>)) >>))
    >>)

\* two small tables with the same names and different items, for the path layer
ab_tree ==
    Dir(<<
      E("a", Dir(<<E("b", Dir(<<E("c", Leaf(noop))>>)), E("f", Leaf(retain))>>)),
      E("f", Leaf(noop)) >>)
ba_tree ==
    Dir(<<
      E("a", Leaf(noop)),
      E("b", Dir(<<E("a", Dir(<<>>))>>)) >>)

\* The tree objects of a run; a tree's identity is its index.  Trees[5] and
\* Trees[6] are two objects with equal content; Trees[8] is a handler given
\* as the whole tree (a _TreeItem that is no dict).
Trees == <<handler_tree, Wiring("dir"), Wiring("missing"), Wiring("leaf"),
           ab_tree, ab_tree, ba_tree, Leaf(noop)>>
TreeIds == 1..Len(Trees)

(***************************************************************************)
(* MQTTPath (mqttfs.py 116-246): [tree, segments].                         *)
(***************************************************************************)
MQTTPath(segments, tree) == [tree |-> tree, segments |-> segments]

\* MQTTPath.__str__
Str(p) == IF Len(p.segments) > 0 THEN join(p.segments) ELSE EmptyText

\* MQTTPath.__hash__: hash(str(self)), a function of the text alone
Hash(p) == Str(p)

\* __eq__ comparing the texts alone
PathEq_text(p, q) == Str(p) = Str(q)

\* __eq__ comparing the normalized texts
PathEq_normalized(p, q) == p.tree = q.tree /\ normpath(Str(p)) = normpath(Str(q))

\* MQTTPath.__eq__
PathEq(p, q) == p.tree = q.tree /\ Str(p) = Str(q)

\* MQTTPath.with_segments
with_segments(p, segments) == MQTTPath(segments, p.tree)

\* self / key, which is with_segments(str(self), key)
Truediv(p, key) == with_segments(p, <<Str(p), key>>)

\* the loop of MQTTPath.__parts never ends when split returns its argument as head
RECURSIVE PartsDiverges(_)
PartsDiverges(head) ==
    LET step(s) == IF s[1] = head THEN TRUE ELSE PartsDiverges(s[1])
    IN  IF head = EmptyText THEN FALSE ELSE step(split(head))

RECURSIVE PartsLoop(_, _)
PartsLoop(head, parts) ==
    LET step(s) == IF s[1] = head THEN parts ELSE PartsLoop(s[1], <<s[2]>> \o parts)
    IN  IF head = EmptyText THEN parts ELSE step(split(head))

\* MQTTPath.__parts, for a path the loop ends on
Parts(path) == PartsLoop(path, <<>>)

\* the value None where a tree item is expected
NoItem == [dir |-> FALSE, entries |-> <<>>, handler |-> None]

\* _MQTTPathInfo.__init__ (mqttfs.py 62-85)
MQTTPathInfo(parts, item) ==
    IF item = NoItem
    THEN [_parts |-> parts, _exists |-> FALSE, _is_dir |-> FALSE, _is_file |-> FALSE,
          _handler |-> None, _children |-> NoItem]
    ELSE IF item.dir
    THEN [_parts |-> parts, _exists |-> TRUE, _is_dir |-> TRUE, _is_file |-> FALSE,
          _handler |-> None, _children |-> item]
    ELSE [_parts |-> parts, _exists |-> TRUE, _is_dir |-> FALSE, _is_file |-> TRUE,
          _handler |-> item.handler, _children |-> NoItem]

\* the for loop of MQTTPath.info: the item reached, or NoItem at the first
\* part that the current item does not hold
RECURSIVE WalkParts(_, _)
WalkParts(cur, parts) ==
    IF parts = <<>> THEN cur
    ELSE IF Head(parts) # curdir /\ Head(parts) # sep
    THEN IF callable(cur) \/ ~HasName(cur, Head(parts))
         THEN NoItem
         ELSE WalkParts(Child(cur, Head(parts)), Tail(parts))
    ELSE WalkParts(cur, Tail(parts))

\* MQTTPath.info never returns: the loop of __parts does not end
InfoHangs(p) == PartsDiverges(normpath(Str(p)))

\* info keeping, when the walk fails, only the parts it consumed
RECURSIVE ConsumedParts(_, _)
ConsumedParts(cur, parts) ==
    IF parts = <<>> THEN <<>>
    ELSE IF Head(parts) # curdir /\ Head(parts) # sep
    THEN IF callable(cur) \/ ~HasName(cur, Head(parts)) THEN <<>>
         ELSE <<Head(parts)>> \o ConsumedParts(Child(cur, Head(parts)), Tail(parts))
    ELSE <<Head(parts)>> \o ConsumedParts(cur, Tail(parts))

info_consumed(p) ==
    LET walked(parts) ==
            MQTTPathInfo(ConsumedParts(Trees[p.tree], parts), WalkParts(Trees[p.tree], parts))
    IN  walked(Parts(normpath(Str(p))))

\* MQTTPath.info (mqttfs.py 172-188), for ~InfoHangs(p)
info(p) ==
    LET walked(parts) == MQTTPathInfo(parts, WalkParts(Trees[p.tree], parts))
    IN  walked(Parts(normpath(Str(p))))

\* MQTTPath.exists / is_dir / is_file
exists(p) == info(p)._exists
is_dir(p) == info(p)._is_dir
is_file(p) == info(p)._is_file

\* MQTTPath.resolve
resolve(p) ==
    LET from(parts) == with_segments(p, [i \in 1..Len(parts) |-> <<parts[i]>>])
    IN  from(info(p)._parts)

\* _MQTTPathInfo.handler: the handler, or the error raised
InfoHandler(self) ==
    IF self._handler = None
    THEN IF self._is_dir
         THEN [raises |-> "IsADirectoryError", value |-> None]
         ELSE [raises |-> "FileNotFoundError", value |-> None]
    ELSE [raises |-> "", value |-> self._handler]

\* _MQTTPathInfo.children: the entry names, or the error raised
InfoChildren(self) ==
    IF self._children = NoItem
    THEN IF self._is_file
         THEN [raises |-> "NotADirectoryError", value |-> <<>>]
         ELSE [raises |-> "FileNotFoundError", value |-> <<>>]
    ELSE [raises |-> "", value |-> Names(self._children)]

\* MQTTPath.handler / MQTTPath.children
handler(p) == InfoHandler(info(p))
children(p) == InfoChildren(info(p))

\* MQTTPath.iterdir: the child paths in the dict's order, or the error raised
iterdir(p) ==
    LET over(names) ==
            [raises |-> names.raises,
             value |-> [i \in 1..Len(names.value) |-> Truediv(p, <<names.value[i]>>)]]
    IN  IF ~callable(Trees[p.tree]) THEN over(children(p))
        ELSE [raises |-> "", value |-> <<>>]

\* MQTTPath.anchor
anchor(p) == <<Head(Parts(Str(p)))>>

\* MQTTPath.strip_anchor
strip_anchor(p) ==
    LET rel(resolved) == relpath(Str(resolved), anchor(resolved))
    IN  rel(resolve(p))

(***************************************************************************)
(* One MQTTPath object with its cached attribute __info: _info is <<>>     *)
(* while the attribute is not set, else <<the _MQTTPathInfo>>.             *)
(***************************************************************************)
\* no path: where a path is expected and there is none
NoPath == MQTTPath(<<>>, 0)

\* MQTTPath.__init__: an object with no cached attribute
NewPath(p) == [path |-> p, _info |-> <<>>, walks |-> 0, calls |-> <<>>]

\* info storing __info only when the walk reaches an item
InfoProperty_found(o) ==
    LET walked(i) ==
            [o |-> [o EXCEPT !._info = IF i._exists THEN <<i>> ELSE <<>>, !.walks = @ + 1],
             returned |-> TRUE, value |-> i]
    IN  IF o._info # <<>> THEN [o |-> o, returned |-> TRUE, value |-> o._info[1]]
        ELSE IF InfoHangs(o.path) THEN [o |-> o, returned |-> FALSE, value |-> <<>>]
        ELSE walked(info(o.path))

\* the property MQTTPath.info of object o: the object afterwards and the
\* value returned, unless the loop of __parts never ends and nothing is
\* returned
InfoProperty(o) ==
    LET walked(i) ==
            [o |-> [o EXCEPT !._info = <<i>>, !.walks = @ + 1], returned |-> TRUE, value |-> i]
    IN  IF o._info # <<>> THEN [o |-> o, returned |-> TRUE, value |-> o._info[1]]
        ELSE IF InfoHangs(o.path) THEN [o |-> o, returned |-> FALSE, value |-> <<>>]
        ELSE walked(info(o.path))

Methods == {"info", "exists", "is_dir", "is_file", "handler", "children", "resolve", "iterdir"}

\* o.m for a property m, o.m() for a method m: the object afterwards and the
\* result, if the call returns.  iterdir returns () without asking for info when the tree is
\* callable; its generator reads self.info.children when it is created.
Method(o, m) ==
    LET paths(names) ==
            [raises |-> names.raises,
             value |-> [i \in 1..Len(names.value) |-> Truediv(o.path, <<names.value[i]>>)]]
        of(self) ==
            CASE m = "info" -> self
              [] m = "exists" -> self._exists
              [] m = "is_dir" -> self._is_dir
              [] m = "is_file" -> self._is_file
              [] m = "handler" -> InfoHandler(self)
              [] m = "children" -> InfoChildren(self)
              [] m = "resolve" ->
                    with_segments(o.path, [i \in 1..Len(self._parts) |-> <<self._parts[i]>>])
              [] m = "iterdir" -> paths(InfoChildren(self))
        got(r) ==
            IF r.returned THEN [o |-> r.o, returned |-> TRUE, result |-> of(r.value)]
            ELSE [o |-> r.o, returned |-> FALSE, result |-> <<>>]
    IN  IF m = "iterdir" /\ callable(Trees[o.path.tree])
        THEN [o |-> o, returned |-> TRUE, result |-> [raises |-> "", value |-> <<>>]]
        ELSE got(InfoProperty(o))

(***************************************************************************)
(* Payload bytes.  k = "raw": bytes that are no JSON document, v their     *)
(* characters; k = "num": a JSON integer, v its characters; k = "str": a   *)
(* JSON string, v its characters; k = "obj": a JSON object, v its          *)
(* <<key, value>> members; k = "arr": a JSON array, v its elements.        *)
(***************************************************************************)
IsJsonInt(cs) ==
    LET int(ds) == AllDigits(ds) /\ (Len(ds) = 1 \/ Head(ds) # "0")
    IN  int(IF cs # <<>> /\ Head(cs) = "-" THEN Tail(cs) ELSE cs)

\* the bytes of a text without quotes, braces or brackets
Bytes(cs) == [k |-> IF IsJsonInt(cs) THEN "num" ELSE "raw", v |-> cs]
JStr(cs) == [k |-> "str", v |-> cs]
JObj(members) == [k |-> "obj", v |-> members]
JArr(elements) == [k |-> "arr", v |-> elements]

ON == Bytes(<<"O", "N">>)
OFF == Bytes(<<"O", "F", "F">>)
Sentinel == Bytes(<<"-">>)

\* int(payload) raises ValueError
IntRaises(payload) == ~(payload.k \in {"raw", "num"} /\ IsIntText(payload.v))
\* int(payload)
IntOf(payload) == IntOfText(payload.v)

\* json.loads(payload) raises JSONDecodeError
JsonRaises(payload) == payload.k = "raw"

HasKey(obj, key) == \E i \in 1..Len(obj.v) : obj.v[i][1] = key
\* the last member wins for a repeated key, as in json.loads
Member(obj, key) ==
    LET last(I) == obj.v[CHOOSE i \in I : \A j \in I : j <= i][2]
    IN  last({i \in 1..Len(obj.v) : obj.v[i][1] = key})

\* value[key] for a string key: "" when it succeeds, else the error raised
GetItemRaises(value, key) ==
    IF value.k # "obj" THEN "TypeError"
    ELSE IF ~HasKey(value, key) THEN "KeyError"
    ELSE ""

\* str.split(":")
RECURSIVE SplitColon(_, _, _)
SplitColon(cs, cur, out) ==
    IF cs = <<>> THEN Append(out, cur)
    ELSE IF Head(cs) = ":" THEN SplitColon(Tail(cs), <<>>, Append(out, cur))
    ELSE SplitColon(Tail(cs), Append(cur, Head(cs)), out)

(***************************************************************************)
(* _FsCache (handlers.py 52-84).  The dict _kind_cache is a set of         *)
(* [key, kind] entries; a key is found through __hash__ and __eq__.        *)
(***************************************************************************)
FILE == "FILE"
DIR == "DIR"
MISSING == "MISSING"

CacheHits(cache, path) == {e \in cache : Hash(e.key) = Hash(path) /\ PathEq(e.key, path)}

\* _cache keeping the entry of the last miss only
FsCache_latest(cache, path) ==
    LET stored(kind) == [kind |-> kind, cache |-> {[key |-> path, kind |-> kind]}, walks |-> 1]
        miss(self) ==
            IF ~self._exists THEN stored(MISSING)
            ELSE IF self._is_dir THEN stored(DIR)
            ELSE stored(FILE)
        lookup(hits) ==
            IF hits # {}
            THEN [kind |-> (CHOOSE e \in hits : TRUE).kind, cache |-> cache, walks |-> 0]
            ELSE miss(info(path))
    IN  lookup(CacheHits(cache, path))

\* _FsCache._cache: the kind returned, the dict afterwards and the tree walks
\* made (path.exists() walks, path.is_dir() reads the object's __info)
FsCache(cache, path) ==
    LET stored(kind) ==
            [kind |-> kind, cache |-> cache \cup {[key |-> path, kind |-> kind]}, walks |-> 1]
        miss(self) ==
            IF ~self._exists THEN stored(MISSING)
            ELSE IF self._is_dir THEN stored(DIR)
            ELSE stored(FILE)
        lookup(hits) ==
            IF hits # {}
            THEN [kind |-> (CHOOSE e \in hits : TRUE).kind, cache |-> cache, walks |-> 0]
            ELSE miss(info(path))
    IN  lookup(CacheHits(cache, path))

\* _FsCache.check_dir / check_file / check_exists: the value returned and
\* the dict afterwards
check_dir(cache, path) ==
    LET is(c) == [value |-> c.kind = DIR, cache |-> c.cache] IN is(FsCache(cache, path))
check_file(cache, path) ==
    LET is(c) == [value |-> c.kind = FILE, cache |-> c.cache] IN is(FsCache(cache, path))
check_exists(cache, path) ==
    LET is(c) == [value |-> ~(c.kind = MISSING), cache |-> c.cache] IN is(FsCache(cache, path))

(***************************************************************************)
(* Handlers (handlers.py 87-233).  A handler is called with the state st = *)
(* [power, timer, cache] it may change, the root path fs and the message;  *)
(* it returns the state afterwards, the error it raises ("" for none) with *)
(* the path the error carries, what it published and what it printed.      *)
(***************************************************************************)
\* client.publish(topic, payload, retain=..., qos=1)
Publish(topic, payload, retained) ==
    [topic |-> topic, payload |-> payload, retain |-> retained, qos |-> 1]

Returned(st, pubs, logs) ==
    [st |-> st, raises |-> "", arg |-> NoPath, pubs |-> pubs, logs |-> logs]
Raised(st, exc, arg) ==
    [st |-> st, raises |-> exc, arg |-> arg, pubs |-> <<>>, logs |-> <<>>]

\* a guard that publishes without classifying the target
Guarded_unchecked(st, topic, pub) == Returned(st, <<pub>>, <<>>)

\* The guard every publishing handler ends with (handlers.py 95-104, 124-134,
\* 149-154, 184-192, 220-228):
\*   if check_dir(topic): publish(...)
\*   else: if not check_exists(topic): raise FileNotFoundError(topic)
\*         raise NotADirectoryError(topic)
Guarded(st, topic, pub) ==
    LET absent(there) ==
            IF ~there.value
            THEN Raised([st EXCEPT !.cache = there.cache], "FileNotFoundError", topic)
            ELSE Raised([st EXCEPT !.cache = there.cache], "NotADirectoryError", topic)
        guard(dir) ==
            IF dir.value
            THEN Returned([st EXCEPT !.cache = dir.cache], <<pub>>, <<>>)
            ELSE absent(check_exists(dir.cache, topic))
    IN  guard(check_dir(st.cache, topic))

\* all(iterable)
all(values) == \A i \in 1..Len(values) : values[i]

\* the keys itertools.groupby yields: one per run of equal neighbours
RECURSIVE groupby(_)
groupby(values) ==
    IF values = <<>> THEN <<>>
    ELSE IF Len(values) >= 2 /\ values[1] = values[2] THEN groupby(Tail(values))
    ELSE <<Head(values)>> \o groupby(Tail(values))

\* all_equal (handlers.py 21-23): next(g, True) and not next(g, False)
all_equal(values) == TRUE /\ ~(Len(groupby(values)) >= 2)

\* dict.values() of an aggregator's state, in the enum's insertion order
Values(state, enum) == [i \in 1..Len(enum) |-> state[enum[i]]]

\* handle_power with any() for all(): "ON" as soon as one device is on
handle_power_any(st, fs, b, device, status) ==
    LET publish(_power_state) ==
            Guarded([st EXCEPT !.power[b] = _power_state],
                    Truediv(fs, PowerStatusTopic(b)),
                    Publish(PowerStatusTopic(b),
                            IF ~all([i \in 1..Len(BehaviourEnum(b)) |->
                                        ~_power_state[BehaviourEnum(b)[i]]])
                            THEN ON ELSE OFF,
                            TRUE))
    IN  publish([st.power[b] EXCEPT ![device] = (status = ON)])

\* handle_power writing the status to the entry of every device
handle_power_all(st, fs, b, device, status) ==
    LET publish(_power_state) ==
            Guarded([st EXCEPT !.power[b] = _power_state],
                    Truediv(fs, PowerStatusTopic(b)),
                    Publish(PowerStatusTopic(b),
                            IF all(Values(_power_state, BehaviourEnum(b))) THEN ON ELSE OFF,
                            TRUE))
    IN  publish([d \in DOMAIN st.power[b] |-> (status = ON)])

\* PowerStatusBehaviour.handle_power (handlers.py 179-192)
handle_power(st, fs, b, device, status) ==
    LET publish(_power_state) ==
            Guarded([st EXCEPT !.power[b] = _power_state],
                    Truediv(fs, PowerStatusTopic(b)),
                    Publish(PowerStatusTopic(b),
                            IF all(Values(_power_state, BehaviourEnum(b))) THEN ON ELSE OFF,
                            TRUE))
    IN  publish([st.power[b] EXCEPT ![device] = (status = ON)])

\* handle_timer comparing the values before the report is stored
handle_timer_stale(st, fs, b, device, status) ==
    LET publish(hours, _timer_state) ==
            Guarded([st EXCEPT !.timer[b] = _timer_state],
                    Truediv(fs, TimerStatusTopic(b)),
                    Publish(TimerStatusTopic(b),
                            IF all_equal(Values(st.timer[b], BehaviourEnum(b)))
                            THEN Bytes(IntChars(hours)) ELSE Sentinel,
                            TRUE))
        store(hours) == publish(hours, [st.timer[b] EXCEPT ![device] = hours])
    IN  IF IntRaises(status) THEN Raised(st, "ValueError", NoPath)
        ELSE store(IntOf(status))

\* handle_timer storing the report only when the publish went through
handle_timer_kept(st, fs, b, device, status) ==
    LET publish(hours, _timer_state) ==
            Guarded([st EXCEPT !.timer[b] = _timer_state],
                    Truediv(fs, TimerStatusTopic(b)),
                    Publish(TimerStatusTopic(b),
                            IF all_equal(Values(_timer_state, BehaviourEnum(b)))
                            THEN Bytes(IntChars(hours)) ELSE Sentinel,
                            TRUE))
        kept(r) == IF r.raises = "" THEN r ELSE [r EXCEPT !.st.timer = st.timer]
        store(hours) == kept(publish(hours, [st.timer[b] EXCEPT ![device] = hours]))
    IN  IF IntRaises(status) THEN Raised(st, "ValueError", NoPath)
        ELSE store(IntOf(status))

\* TimerStatusBehaviour.handle_timer (handlers.py 214-228)
handle_timer(st, fs, b, device, status) ==
    LET publish(hours, _timer_state) ==
            Guarded([st EXCEPT !.timer[b] = _timer_state],
                    Truediv(fs, TimerStatusTopic(b)),
                    Publish(TimerStatusTopic(b),
                            IF all_equal(Values(_timer_state, BehaviourEnum(b)))
                            THEN Bytes(IntChars(hours)) ELSE Sentinel,
                            TRUE))
        store(hours) == publish(hours, [st.timer[b] EXCEPT ![device] = hours])
    IN  IF IntRaises(status) THEN Raised(st, "ValueError", NoPath)
        ELSE store(IntOf(status))

\* time_marshalled with the slider position itself as the hour
handle_marshal_plain(st, fs, msg) ==
    LET publish(true_time, topic) ==
            Guarded(st, topic,
                    Publish(Str(resolve(topic)),
                            JObj(<< <<"Time", JStr(IntChars(true_time) \o <<":", "5", "9">>)>> >>),
                            FALSE))
    IN  IF IntRaises(msg.payload) THEN Returned(st, <<>>, <<"Error setting time">>)
        ELSE publish(IntOf(msg.payload) % 24,
                     Truediv(Truediv(fs, <<"cmnd">>), strip_anchor(Truediv(fs, msg.topic))))

\* time_marshalled (handlers.py 88-106)
handle_marshal(st, fs, msg) ==
    LET publish(true_time, topic) ==
            Guarded(st, topic,
                    Publish(Str(resolve(topic)),
                            JObj(<< <<"Time", JStr(IntChars(true_time) \o <<":", "5", "9">>)>> >>),
                            FALSE))
    IN  IF IntRaises(msg.payload) THEN Returned(st, <<>>, <<"Error setting time">>)
        ELSE publish((IntOf(msg.payload) - 1) % 24,
                     Truediv(Truediv(fs, <<"cmnd">>), strip_anchor(Truediv(fs, msg.topic))))

\* the hour kept whatever the minutes are
Rounded_down(hours, minutes) == hours

\* if int(split_time[1]) >= 30: hours += 1; hours %= 24 (handlers.py 119-121)
Rounded(hours, minutes) == IF minutes >= 30 THEN (hours + 1) % 24 ELSE hours

\* unmarshal (handlers.py 114-140)
handle_unmarshal(st, fs, msg, h) ==
    LET key_error ==
            Returned(st, <<>>, <<"Info, cannot unmarshal time, missing key in object">>)
        decode_error ==
            Returned(st, <<>>, <<"Error unmarshalling time, cannot decode">>)
        publish(hours) ==
            Guarded(st, Truediv(fs, UnmarshalTopicPath(h)),
                    Publish(UnmarshalTopicPath(h), Bytes(IntChars(hours)), TRUE))
        \* hours = int(split_time[0]); if int(split_time[1]) >= 30: ...
        rounded(split_time) ==
            IF ~IsIntText(split_time[1]) THEN decode_error
            ELSE IF Len(split_time) < 2 THEN Raised(st, "IndexError", NoPath)
            ELSE IF ~IsIntText(split_time[2]) THEN decode_error
            ELSE publish(Rounded(IntOfText(split_time[1]), IntOfText(split_time[2])))
        \* payload[timer_name]["Time"].split(":")
        of_time(time) ==
            IF time.k # "str" THEN Raised(st, "AttributeError", NoPath)
            ELSE rounded(SplitColon(time.v, <<>>, <<>>))
        of_timer(timer, raises) ==
            IF raises = "KeyError" THEN key_error
            ELSE IF raises # "" THEN Raised(st, raises, NoPath)
            ELSE of_time(Member(timer, "Time"))
        of_payload(payload, timer_name, raises) ==
            IF raises = "KeyError" THEN key_error
            ELSE IF raises # "" THEN Raised(st, raises, NoPath)
            ELSE of_timer(Member(payload, timer_name),
                          GetItemRaises(Member(payload, timer_name), "Time"))
    IN  IF JsonRaises(msg.payload) THEN decode_error
        ELSE of_payload(msg.payload, UnmarshalTimerName(h),
                        GetItemRaises(msg.payload, UnmarshalTimerName(h)))

\* retain publishing on the topic the message came in on
handle_retain_same(st, fs, msg) ==
    LET publish(topic_path) ==
            Guarded(st, Truediv(fs, topic_path), Publish(topic_path, msg.payload, TRUE))
    IN  publish(msg.topic)

\* retain (handlers.py 146-154)
handle_retain(st, fs, msg) ==
    LET publish(topic_path) ==
            Guarded(st, Truediv(fs, topic_path), Publish(topic_path, msg.payload, TRUE))
    IN  publish(StrConcat(msg.topic, <<"", "retained">>))

\* calling a leaf of the tree: handler(client, fs, msg)
Call(h, st, fs, msg) ==
    IF h.fn = "handle_power" THEN handle_power(st, fs, h.agg, h.device, msg.payload)
    ELSE IF h.fn = "handle_timer" THEN handle_timer(st, fs, h.agg, h.device, msg.payload)
    ELSE IF h.fn = "time_marshalled" THEN handle_marshal(st, fs, msg)
    ELSE IF h.fn = "unmarshal" THEN handle_unmarshal(st, fs, msg, h)
    ELSE IF h.fn = "retain" THEN handle_retain(st, fs, msg)
    ELSE Returned(st, <<>>, <<>>)

(***************************************************************************)
(* The callbacks (__init__.py 98-149).                                     *)
(***************************************************************************)
Reverse(q) == [i \in 1..Len(q) |-> q[Len(q) + 1 - i]]

\* MQTTPath.name
name(p) == split(Str(p))[2]

\* fs.walk(), top down: the <<path, dirnames, filenames>> triples in the order
\* they are yielded; a path whose iterdir raises an OSError is skipped
RECURSIVE walk_loop(_)
walk_loop(paths) ==
    LET names(ps) == [i \in 1..Len(ps) |-> name(ps[i])]
        yield(path, rest, dirnames, filenames) ==
            <<<<path, dirnames, filenames>>>>
            \o walk_loop(rest \o Reverse([i \in 1..Len(dirnames) |->
                                             Truediv(path, <<dirnames[i]>>)]))
        scan(path, rest, it) ==
            IF it.raises # "" THEN walk_loop(rest)
            ELSE yield(path, rest,
                       names(SelectSeq(it.value, is_dir)),
                       names(SelectSeq(it.value, LAMBDA c : ~is_dir(c))))
    IN  IF paths = <<>> THEN <<>>
        ELSE scan(paths[Len(paths)], SubSeq(paths, 1, Len(paths) - 1),
                  iterdir(paths[Len(paths)]))

walk(p) == walk_loop(<<p>>)

\* on_connect subscribing to every node that has a child of any kind
on_connect_any(fs) ==
    LET subscribe(yielded) == [i \in 1..Len(yielded) |-> Str(resolve(yielded[i][1]))]
    IN  subscribe(SelectSeq(walk(fs), LAMBDA y : Len(y[2]) + Len(y[3]) > 0))

\* on_connect: the topics client.subscribe is called with, in order
on_connect(fs) ==
    LET subscribe(yielded) == [i \in 1..Len(yielded) |-> Str(resolve(yielded[i][1]))]
    IN  subscribe(SelectSeq(walk(fs), LAMBDA y : Len(y[3]) > 0))

ClassificationErrors == {"FileNotFoundError", "NotADirectoryError", "IsADirectoryError"}

\* the for loop of on_message over the children left; run is
\* [st, fired, pubs, logs, counter, escaped]
RECURSIVE on_message_loop(_, _, _, _)
on_message_loop(kids, run, fs, msg) ==
    LET \* handler h of the child (resolved to the text child) came back with r;
        \* t is the resolved text of the path a classification error carries
        back(child, h, r, fired, t) ==
            IF r.raises = ""
            THEN on_message_loop(Tail(kids),
                     [run EXCEPT !.st = r.st,
                                 !.fired = Append(@, fired),
                                 !.pubs = @ \o r.pubs,
                                 !.logs = @ \o <<<<"Firing", child>>>> \o r.logs \o <<<<"Done">>>>,
                                 !.counter = @ + 1],
                     fs, msg)
            ELSE IF r.raises \in ClassificationErrors
            THEN on_message_loop(Tail(kids),
                     [run EXCEPT !.st = r.st,
                                 !.fired = Append(@, fired),
                                 !.logs = @ \o <<<<"Firing", child>>, <<r.raises, child, t>>>>],
                     fs, msg)
            ELSE [run EXCEPT !.st = r.st,
                             !.fired = Append(@, fired),
                             !.logs = @ \o <<<<"Firing", child>>>>,
                             !.escaped = r.raises]
        called(child, h, r) ==
            back(child, h, r,
                 [child |-> child, h |-> h, raises |-> r.raises,
                  target |-> IF r.arg = NoPath THEN EmptyText ELSE Str(r.arg),
                  pubs |-> r.pubs, logs |-> r.logs, before |-> run.st, after |-> r.st],
                 IF r.arg = NoPath THEN EmptyText ELSE Str(resolve(r.arg)))
        fire(child, h) == called(child, h, Call(h, run.st, fs, msg))
    IN  IF kids = <<>> THEN run
        ELSE IF ~is_file(Head(kids)) THEN on_message_loop(Tail(kids), run, fs, msg)
        ELSE fire(Str(resolve(Head(kids))), handler(Head(kids)).value)

\* on_message(client, fs, msg)
on_message(st, counter, fs, msg) ==
    LET start == [st |-> st, fired |-> <<>>, pubs |-> <<>>, logs |-> <<>>,
                  counter |-> counter, escaped |-> ""]
        over(it) ==
            IF it.raises # "" THEN [start EXCEPT !.escaped = it.raises]
            ELSE on_message_loop(it.value, start, fs, msg)
    IN  over(iterdir(Truediv(fs, msg.topic)))

(***************************************************************************)
(* The process: the callbacks run one at a time on the network loop        *)
(* (__init__.py 155-176).                                                  *)
(***************************************************************************)
VARIABLES
    fs,            \* the userdata: the root MQTTPath of the handler table
    subscribed,    \* the topics on_connect has subscribed to, in order
    _power_state,  \* PowerStatusBehaviour._power_state of each power aggregator
    _timer_state,  \* TimerStatusBehaviour._timer_state of each timer aggregator
    _kind_cache,   \* _FsCache._kind_cache
    counter,       \* counter[0]: the handler calls that returned
    nmsgs,         \* the messages delivered so far
    last,          \* the last message and what on_message did with it
    history,       \* the messages of a recorded run and what each fired
    looked,        \* the paths _FsCache was asked about so far
    obj,           \* one MQTTPath object: its path, its cached __info, the tree
                   \* walks made for it and the calls made on it with their results
    broker,        \* the broker's side of the session: the published messages it
                   \* has still to deliver back, the topics delivered since the
                   \* last message from outside, and the messages from outside
    running        \* the network loop has not been left by an exception

vars == <<fs, subscribed, _power_state, _timer_state, _kind_cache, counter, nmsgs,
          last, history, looked, obj, broker, running>>

Range(q) == {q[i] : i \in 1..Len(q)}

\* the payloads the transport delivers
Payloads ==
    { ON, OFF, Bytes(<<"5">>), Bytes(<<"0", "5">>), Bytes(<<"6">>),
      JObj(<< <<"Timer2", JObj(<< <<"Time", JStr(<<"7", ":", "3", "5">>)>> >>)>> >>) }
\* the payloads of the runs of power reports and of timer reports
PowerPayloads == {ON, OFF, Bytes(<<"5">>)}
TimerPayloads == {Bytes(<<"5">>), Bytes(<<"0", "5">>), Bytes(<<"6">>), ON}

\* the handler tables the process is run with: Trees[1..4]
Wirings == {1, 2, 3, 4}
\* the tables other than handler_tree
TestWirings == {2, 3, 4}

NoMessage == [topic |-> EmptyText, payload |-> Bytes(<<>>)]
Idle == [msg |-> NoMessage, fired |-> <<>>, pubs |-> <<>>, logs |-> <<>>, escaped |-> ""]

InitOn(tables) ==
    /\ fs \in {MQTTPath(<<>>, t) : t \in tables}
    /\ subscribed = <<>>
    /\ _power_state = [b \in PowerBehaviours |-> PowerStatusInit(b)]
    /\ _timer_state = [b \in TimerBehaviours |-> TimerStatusInit(b)]
    /\ _kind_cache = {}
    /\ counter = 0
    /\ nmsgs = 0
    /\ last = Idle
    /\ history = <<>>
    /\ looked = {}
    /\ obj = NewPath(NoPath)
    /\ broker = [queue |-> <<>>, cascade |-> <<>>, external |-> 0]
    /\ running = TRUE

\* the CONNACK arrives: on_connect subscribes
OnConnect ==
    /\ running
    /\ subscribed = <<>>
    /\ subscribed' = on_connect(fs)
    /\ UNCHANGED <<fs, _power_state, _timer_state, _kind_cache, counter, nmsgs, last,
                   history, looked, obj, broker, running>>

Brief(fired) == [i \in 1..Len(fired) |->
                    [h |-> fired[i].h, raises |-> fired[i].raises, pubs |-> fired[i].pubs]]

\* a PUBLISH arrives: on_message runs to its end, or an exception leaves it
\* and, with it, loop_forever (what the broker does with the publishes is
\* the caller's part)
Deliver(topic, payload, recorded) ==
    /\ running
    /\ \E msg \in {[topic |-> topic, payload |-> payload]} :
       \E run \in {on_message([power |-> _power_state, timer |-> _timer_state,
                              cache |-> _kind_cache], counter, fs, msg)} :
          /\ _power_state' = run.st.power
          /\ _timer_state' = run.st.timer
          /\ _kind_cache' = run.st.cache
          /\ counter' = run.counter
          /\ last' = [msg |-> msg, fired |-> run.fired, pubs |-> run.pubs,
                      logs |-> run.logs, escaped |-> run.escaped]
          /\ history' = IF recorded
                        THEN Append(history, [msg |-> msg, fired |-> Brief(run.fired)])
                        ELSE history
          /\ running' = (run.escaped = "")
    /\ nmsgs' = nmsgs + 1
    /\ UNCHANGED <<fs, subscribed, looked, obj>>

(***************************************************************************)
(* Spec: any payload on any subscribed topic, over the test tables.        *)
(***************************************************************************)
Init == InitOn(TestWirings)

OnMessage ==
    /\ nmsgs < MaxMessages
    /\ \E topic \in Range(subscribed), payload \in Payloads : Deliver(topic, payload, FALSE)
    /\ UNCHANGED broker

Next == OnConnect \/ OnMessage

Spec == Init /\ [][Next]_vars

(***************************************************************************)
(* SpecPower: recorded runs of power reports, over every table.            *)
(***************************************************************************)
InitPower == InitOn(Wirings)

PowerTopics == {t \in Range(subscribed) : t[Len(t)] = "POWER"}

OnPowerMessage ==
    /\ nmsgs < MaxRun
    /\ \E topic \in PowerTopics, payload \in PowerPayloads : Deliver(topic, payload, TRUE)
    /\ UNCHANGED broker

NextPower == OnConnect \/ OnPowerMessage

SpecPower == InitPower /\ [][NextPower]_vars

(***************************************************************************)
(* SpecTimer: recorded runs of timer reports, over every table.            *)
(***************************************************************************)
InitTimer == InitOn(Wirings)

\* the topics with a handler of a timer aggregator among their children
TimerTopics ==
    {t \in Range(subscribed) :
        \E c \in Range(iterdir(Truediv(fs, t)).value) : handler(c).value.fn = "handle_timer"}

OnTimerMessage ==
    /\ nmsgs < MaxRun
    /\ \E topic \in TimerTopics, payload \in TimerPayloads : Deliver(topic, payload, TRUE)
    /\ UNCHANGED broker

NextTimer == OnConnect \/ OnTimerMessage

SpecTimer == InitTimer /\ [][NextTimer]_vars

(***************************************************************************)
(* SpecFs: the path layer and the cache on their own.  Paths are built     *)
(* from the segment tuples below over three tree objects, Trees[5..7], and *)
(* looked up through _FsCache in any order.                                *)
(***************************************************************************)
SegmentInputs ==
    { <<>>,                                \* MQTTPath(tree=t), the root
      << <<"a">> >>,                       \* 'a'
      << <<"a", "b">> >>,                  \* 'a/b'
      << <<"a">>, <<"b">> >>,              \* 'a', 'b'
      << <<"a", ".", "b">> >>,             \* 'a/./b'
      << <<"a", "", "b">> >>,              \* 'a//b'
      << <<"a", "b", "">> >>,              \* 'a/b/'
      << <<"a", "b", "c">> >>,             \* 'a/b/c'
      << <<"a", "x", "y">> >>,             \* 'a/x/y'
      << <<"a", "f", "x">> >> }            \* 'a/f/x'

FsTrees == {5, 6, 7}

PathInputs == {MQTTPath(segments, t) : segments \in SegmentInputs, t \in FsTrees}

InitFs == InitOn({5})

CheckDir ==
    /\ Cardinality(looked) < MaxLookups
    /\ \E path \in PathInputs :
       \E r \in {check_dir(_kind_cache, path)} :
          /\ _kind_cache' = r.cache
          /\ looked' = looked \cup {path}
    /\ UNCHANGED <<fs, subscribed, _power_state, _timer_state, counter, nmsgs, last,
                   history, obj, broker, running>>

CheckFile ==
    /\ Cardinality(looked) < MaxLookups
    /\ \E path \in PathInputs :
       \E r \in {check_file(_kind_cache, path)} :
          /\ _kind_cache' = r.cache
          /\ looked' = looked \cup {path}
    /\ UNCHANGED <<fs, subscribed, _power_state, _timer_state, counter, nmsgs, last,
                   history, obj, broker, running>>

CheckExists ==
    /\ Cardinality(looked) < MaxLookups
    /\ \E path \in PathInputs :
       \E r \in {check_exists(_kind_cache, path)} :
          /\ _kind_cache' = r.cache
          /\ looked' = looked \cup {path}
    /\ UNCHANGED <<fs, subscribed, _power_state, _timer_state, counter, nmsgs, last,
                   history, obj, broker, running>>

NextFs == CheckDir \/ CheckFile \/ CheckExists

SpecFs == InitFs /\ [][NextFs]_vars

(***************************************************************************)
(* SpecPath: one MQTTPath object, built from any of the segment tuples     *)
(* over any of Trees[5..8], and up to MaxCalls calls on it in any order.   *)
(***************************************************************************)
PathObjects ==
    PathInputs
    \cup {MQTTPath(segments, 5) : segments \in
              { << <<".">> >>,                  \* '.'
                << <<"a", "x", "..", "b">> >>,  \* 'a/x/../b'
                << <<"a", "..">> >>,            \* 'a/..'
                << <<"..", "a">> >>,            \* '../a'
                << <<"", "a">> >>,              \* '/a'
                << <<"", "a", "b">> >> }}       \* '/a/b'
    \cup {MQTTPath(segments, 8) : segments \in {<<>>, << <<"a">> >>}}

InitPath == InitOn({5})

\* MQTTPath(*pathsegments, tree=tree)
Construct ==
    /\ obj.path = NoPath
    /\ \E p \in PathObjects : obj' = NewPath(p)
    /\ UNCHANGED <<fs, subscribed, _power_state, _timer_state, _kind_cache, counter,
                   nmsgs, last, history, looked, broker, running>>

\* a call on the object, once the calls before it have returned
CallMethod(m) ==
    /\ obj.path # NoPath
    /\ Len(obj.calls) < MaxCalls
    /\ \A i \in 1..Len(obj.calls) : obj.calls[i].returned
    /\ \E r \in {Method(obj, m)} :
          obj' = [r.o EXCEPT !.calls = Append(@, [m |-> m, returned |-> r.returned,
                                                  result |-> r.result])]
    /\ UNCHANGED <<fs, subscribed, _power_state, _timer_state, _kind_cache, counter,
                   nmsgs, last, history, looked, broker, running>>

NextPath == Construct \/ \E m \in Methods : CallMethod(m)

SpecPath == InitPath /\ [][NextPath]_vars

(***************************************************************************)
(* SpecTime: timer objects on the topics with an unmarshalling handler and *)
(* slider positions on the topics with a marshalling handler, over every   *)
(* table.                                                                  *)
(***************************************************************************)
\* the subscribed topics with a handler of one of the functions fns among
\* their children
TopicsOf(fns) ==
    {t \in Range(subscribed) :
        \E c \in Range(iterdir(Truediv(fs, t)).value) :
            is_file(c) /\ handler(c).value.fn \in fns}

\* the bytes of {"Timer1": time, "Timer2": time}
TimerObject(time) == JObj(<< <<"Timer1", time>>, <<"Timer2", time>> >>)
\* the bytes of {"Time": "<text>"}
TimeObject(text) == JObj(<< <<"Time", JStr(text)>> >>)

UnmarshalPayloads ==
    {TimerObject(TimeObject(IntChars(h) \o <<":">> \o IntChars(m))) :
        h \in {0, 7, 23}, m \in {0, 29, 30, 59}}
    \cup { TimerObject(TimeObject(<<"7", ":", "3", "5">>)),
           TimerObject(TimeObject(<<"2", "3", ":", "4", "5">>)),
           TimerObject(TimeObject(<<"0", "7", ":", "0", "5">>)),
           ON,                                       \* no JSON document
           JArr(<<>>), Bytes(<<"5">>), JStr(<<"7", ":", "3", "5">>),
           JObj(<<>>),                               \* no TimerN
           TimerObject(JObj(<<>>)),                  \* no Time
           TimerObject(Bytes(<<"5">>)),              \* TimerN is a number
           TimerObject(JObj(<< <<"Time", Bytes(<<"7">>)>> >>)),  \* Time is a number
           TimerObject(TimeObject(<<"7">>)),         \* no minutes
           TimerObject(TimeObject(<<"a", ":", "3", "0">>)),
           TimerObject(TimeObject(<<"7", ":", "x">>)) }

SliderPayloads == {Bytes(IntChars(t)) : t \in 1..24} \cup {ON}

\* a timer object arrives for an unmarshalling handler, or a slider position
\* for a marshalling handler
OnTimeMessage ==
    /\ nmsgs < MaxTime
    /\ \E fn \in {"unmarshal", "time_marshalled"} :
       \E topic \in TopicsOf({fn}) :
       \E payload \in IF fn = "unmarshal" THEN UnmarshalPayloads ELSE SliderPayloads :
          Deliver(topic, payload, FALSE)
    /\ UNCHANGED broker

NextTime == OnConnect \/ OnTimeMessage

InitTime == InitOn(Wirings)

SpecTime == InitTime /\ [][NextTime]_vars

(***************************************************************************)
(* SpecReports: recorded runs of power reports and of timer reports with   *)
(* small hours, in any order, over every table.                            *)
(***************************************************************************)
InitReports == InitOn(Wirings)

\* a device reports its power or the hour of its timer
OnReport ==
    /\ nmsgs < MaxReports
    /\ \E fn \in {"handle_power", "handle_timer"} :
       \E topic \in TopicsOf({fn}) :
       \E payload \in IF fn = "handle_power" THEN {ON, OFF}
                      ELSE {Bytes(<<"0">>), Bytes(<<"1">>), Bytes(<<"5">>)} :
          Deliver(topic, payload, TRUE)
    /\ UNCHANGED broker

NextReports == OnConnect \/ OnReport

SpecReports == InitReports /\ [][NextReports]_vars

(***************************************************************************)
(* SpecCascade: handler_tree with the broker delivering back every message *)
(* the process publishes on a topic it subscribed to.  A message from      *)
(* outside arrives when nothing is in flight.                              *)
(***************************************************************************)
InitCascade == InitOn({1})

\* the payloads a device or a slider sends to a handler of function fn
WellFormed(fn) ==
    CASE fn = "handle_power" -> {ON, OFF}
      [] fn = "handle_timer" -> {Bytes(IntChars(hours)) : hours \in {0, 1, 8, 23}}
      [] fn \in {"retain", "unmarshal"} ->
            {TimerObject(TimeObject(text)) :
                text \in {<<"7", ":", "3", "5">>, <<"2", "3", ":", "4", "5">>,
                          <<"0", ":", "0", "0">>, <<"0", "7", ":", "0", "5">>}}
      [] fn = "time_marshalled" -> {Bytes(IntChars(t)) : t \in {1, 12, 23, 24}}

\* the messages that can arrive next: the oldest one in flight, or, with
\* nothing in flight, a well-formed message from outside on a subscribed topic
Arriving ==
    IF broker.queue # <<>>
    THEN {m \in {Head(broker.queue)} : Len(broker.cascade) < MaxCascade}
    ELSE IF broker.external >= MaxExternal THEN {}
    ELSE UNION {{[topic |-> t, payload |-> p] : t \in TopicsOf({fn}), p \in WellFormed(fn)} :
                   fn \in {"handle_power", "handle_timer", "time_marshalled", "unmarshal", "retain"}}

\* the publishes the broker delivers back: those on a subscribed topic
Routed(pubs) ==
    LET back(kept) == [i \in 1..Len(kept) |-> [topic |-> kept[i].topic, payload |-> kept[i].payload]]
    IN  back(SelectSeq(pubs, LAMBDA pub : pub.topic \in Range(subscribed)))

\* the broker hands the process a message, and takes what it publishes
OnBrokerMessage ==
    \E msg \in Arriving :
        /\ Deliver(msg.topic, msg.payload, FALSE)
        /\ broker' = IF broker.queue # <<>>
                     THEN [broker EXCEPT !.queue = Tail(@) \o Routed(last'.pubs),
                                         !.cascade = Append(@, msg.topic)]
                     ELSE [broker EXCEPT !.queue = Routed(last'.pubs),
                                         !.cascade = <<msg.topic>>,
                                         !.external = @ + 1]

NextCascade == OnConnect \/ OnBrokerMessage

SpecCascade == InitCascade /\ [][NextCascade]_vars

(***************************************************************************)
(* Properties of the recorded runs.  An invocation is a pair <<k, j>>: the *)
(* j-th handler fired by the k-th message of history.                      *)
(***************************************************************************)
Invocations ==
    UNION {{<<k, j>> : j \in 1..Len(history[k].fired)} : k \in 1..Len(history)}

Fired(x) == history[x[1]].fired[x[2]]
Payload(x) == history[x[1]].msg.payload

\* invocation x is not after invocation y
NotAfter(x, y) == x[1] < y[1] \/ (x[1] = y[1] /\ x[2] <= y[2])

\* the invocations up to y in which device d reported to aggregator b
Reports(fn, b, d, y) ==
    {x \in Invocations :
        /\ NotAfter(x, y)
        /\ Fired(x).h.fn = fn /\ Fired(x).h.agg = b /\ Fired(x).h.device = d}

LastReport(fn, b, d, y) ==
    CHOOSE x \in Reports(fn, b, d, y) : \A z \in Reports(fn, b, d, y) : NotAfter(z, x)

\* the payload device d reported last to aggregator b, up to invocation y, is in S
LastReportedIn(fn, b, d, y, S) ==
    /\ Reports(fn, b, d, y) # {}
    /\ Payload(LastReport(fn, b, d, y)) \in S

\* the first messages of history are the reports r, each <<device, payload>>
\* and delivered to the handler of that device of aggregator b
RunStartsWith(r, fn, b) ==
    /\ Len(history) >= Len(r)
    /\ \A i \in 1..Len(r) :
          /\ history[i].msg.payload = r[i][2]
          /\ \E j \in 1..Len(history[i].fired) :
                /\ history[i].fired[j].h.fn = fn
                /\ history[i].fired[j].h.agg = b
                /\ history[i].fired[j].h.device = r[i][1]

\* what the handler of aggregator b published when fired by the k-th message
PublishedBy(b, k) ==
    {Fired(x).pubs : x \in {y \in Invocations : y[1] = k /\ Fired(y).h.agg = b}}

\* C1: a power aggregator whose target topic is a Directory publishes, at
\* every invocation of a run that starts from all devices false, exactly one
\* retained message to its target: "ON" iff the last report of every tracked
\* device was "ON" (a device that never reported counts as off), else "OFF";
\* so for the devices {X, Y}, X=ON publishes "OFF", then Y=ON publishes "ON",
\* then Y=OFF publishes "OFF".
C1_PowerAggregator ==
    /\ \A x \in Invocations :
          (/\ Fired(x).h.fn = "handle_power"
           /\ is_dir(Truediv(fs, PowerStatusTopic(Fired(x).h.agg))))
          => /\ Fired(x).raises = ""
             /\ Fired(x).pubs =
                  << Publish(PowerStatusTopic(Fired(x).h.agg),
                             IF \A d \in Members(BehaviourEnum(Fired(x).h.agg)) :
                                   LastReportedIn("handle_power", Fired(x).h.agg, d, x, {ON})
                             THEN ON ELSE OFF,
                             TRUE) >>
    /\ \A n \in 1..3 :
          (/\ is_dir(Truediv(fs, PowerStatusTopic("onlyfans_power")))
           /\ RunStartsWith(SubSeq(<< <<PLUG_2, ON>>, <<PLUG_3, ON>>, <<PLUG_3, OFF>> >>, 1, n),
                            "handle_power", "onlyfans_power"))
          => PublishedBy("onlyfans_power", n) =
                { << Publish(PowerStatusTopic("onlyfans_power"), <<OFF, ON, OFF>>[n], TRUE) >> }

\* the run X=ON, Y=ON, Y=OFF was delivered to an aggregator with a Directory
\* target, which published "OFF" last
C1_Witness ==
    /\ Len(history) = 3
    /\ RunStartsWith(<< <<PLUG_2, ON>>, <<PLUG_3, ON>>, <<PLUG_3, OFF>> >>,
                     "handle_power", "onlyfans_power")
    /\ is_dir(Truediv(fs, PowerStatusTopic("onlyfans_power")))
    /\ \E x \in Invocations :
          /\ x[1] = 3 /\ Fired(x).h.agg = "onlyfans_power"
          /\ Len(Fired(x).pubs) = 1 /\ Fired(x).pubs[1].payload = OFF

\* the value of device d in the state of timer aggregator b after invocation
\* y: the integer it reported last, or the value it was seeded with
TimerValue(b, d, y) ==
    IF Reports("handle_timer", b, d, y) = {} THEN TimerStatusInit(b)[d]
    ELSE IntOf(Payload(LastReport("handle_timer", b, d, y)))

\* C2: a value-agreement aggregator whose target topic is a Directory, fired
\* with an integer payload h, publishes exactly one retained message to its
\* target: str(h) if the values of all tracked devices (the device of the
\* message now holding h) are equal, else the sentinel "-"; so with two
\* devices, A=5 then B=5 publishes "5" after the second message and B=6
\* afterwards publishes "-".
C2_ValueAgreement ==
    /\ \A x \in Invocations :
          (/\ Fired(x).h.fn = "handle_timer"
           /\ ~IntRaises(Payload(x))
           /\ is_dir(Truediv(fs, TimerStatusTopic(Fired(x).h.agg))))
          => /\ Fired(x).raises = ""
             /\ TimerValue(Fired(x).h.agg, Fired(x).h.device, x) = IntOf(Payload(x))
             /\ Fired(x).pubs =
                  << Publish(TimerStatusTopic(Fired(x).h.agg),
                             IF \A d \in Members(BehaviourEnum(Fired(x).h.agg)) :
                                   TimerValue(Fired(x).h.agg, d, x) = IntOf(Payload(x))
                             THEN Bytes(IntChars(IntOf(Payload(x)))) ELSE Sentinel,
                             TRUE) >>
    /\ \A n \in 2..3 :
          (/\ is_dir(Truediv(fs, TimerStatusTopic("onlyfans_timer")))
           /\ RunStartsWith(SubSeq(<< <<PLUG_2, Bytes(<<"5">>)>>, <<PLUG_3, Bytes(<<"5">>)>>,
                                      <<PLUG_3, Bytes(<<"6">>)>> >>, 1, n),
                            "handle_timer", "onlyfans_timer"))
          => PublishedBy("onlyfans_timer", n) =
                { << Publish(TimerStatusTopic("onlyfans_timer"),
                             <<Sentinel, Bytes(<<"5">>), Sentinel>>[n], TRUE) >> }

\* the run A=5, B=5, B=6 was delivered to an aggregator with a Directory
\* target, which published "5" after the second report and "-" after the third
C2_Witness ==
    /\ Len(history) = 3
    /\ RunStartsWith(<< <<PLUG_2, Bytes(<<"5">>)>>, <<PLUG_3, Bytes(<<"5">>)>>,
                        <<PLUG_3, Bytes(<<"6">>)>> >>, "handle_timer", "onlyfans_timer")
    /\ is_dir(Truediv(fs, TimerStatusTopic("onlyfans_timer")))
    /\ \E x \in Invocations :
          x[1] = 2 /\ Fired(x).h.fn = "handle_timer" /\ Len(Fired(x).pubs) = 1
          /\ Fired(x).pubs[1].payload = Bytes(<<"5">>)
    /\ \E x \in Invocations :
          x[1] = 3 /\ Fired(x).h.fn = "handle_timer" /\ Len(Fired(x).pubs) = 1
          /\ Fired(x).pubs[1].payload = Sentinel

(***************************************************************************)
(* Properties of the dispatcher and of the handlers, on the last message.  *)
(***************************************************************************)
Delivered == last.msg # NoMessage

\* the children of the topic of the last message that classify as Leaf, as
\* resolved texts, in the order of the Directory
LeafChildren ==
    LET texts(kids) == [i \in 1..Len(kids) |-> Str(resolve(kids[i]))]
    IN  texts(SelectSeq(iterdir(Truediv(fs, last.msg.topic)).value, is_file))

\* C3: an error raised by a handler, of whatever kind, is caught by
\* on_message and logged with the handler's path and the target path; the
\* remaining Leaf children of the topic are still invoked and the process
\* goes on to later messages.
C3_FaultIsolation ==
    Delivered =>
        /\ \A i \in 1..Len(last.fired) :
              last.fired[i].raises # "" =>
                  \E l \in Range(last.logs) :
                      /\ Len(l) = 3
                      /\ l[1] = last.fired[i].raises /\ l[2] = last.fired[i].child
        /\ Len(last.fired) = Len(LeafChildren)
        /\ last.escaped = ""
        /\ running

PayloadGuarded == {"handle_timer", "time_marshalled"}

\* C4: handle_timer and time_marshalled, given a payload that is not integer
\* text, log, return normally, publish nothing and leave the aggregator
\* state as it was.
C4_PayloadErrorRecovered ==
    \A i \in 1..Len(last.fired) :
        (last.fired[i].h.fn \in PayloadGuarded /\ IntRaises(last.msg.payload))
        => /\ last.fired[i].raises = ""
           /\ last.fired[i].logs # <<>>
           /\ last.fired[i].pubs = <<>>
           /\ last.fired[i].after.timer = last.fired[i].before.timer
           /\ last.fired[i].after.power = last.fired[i].before.power

Publishing == {"handle_power", "handle_timer", "time_marshalled", "unmarshal", "retain"}

\* the text of the path a publishing handler h classifies, for a message on
\* the (resolved) topic
TargetText(h, topic) ==
    CASE h.fn = "handle_power" -> PowerStatusTopic(h.agg)
      [] h.fn = "handle_timer" -> TimerStatusTopic(h.agg)
      [] h.fn = "unmarshal" -> UnmarshalTopicPath(h)
      [] h.fn = "retain" -> topic \o <<"retained">>
      [] h.fn = "time_marshalled" -> <<"cmnd">> \o Tail(topic)

\* the invocation f decoded the payload: it reached its guard
Decoded(f, payload) ==
    CASE f.h.fn \in {"handle_power", "retain"} -> TRUE
      [] f.h.fn \in {"handle_timer", "time_marshalled"} -> ~IntRaises(payload)
      [] f.h.fn = "unmarshal" -> f.logs = <<>> /\ f.raises \in ClassificationErrors \cup {""}

\* C5: a publishing handler publishes only if its target classifies as
\* Directory; once it has decoded the payload it publishes one message if the
\* target is a Directory, raises FileNotFoundError carrying the target and
\* publishes nothing if it is Missing, raises NotADirectoryError carrying the
\* target and publishes nothing if it is a Leaf.  Asking for the handler of a
\* Directory raises IsADirectoryError and of a Missing path FileNotFoundError.
C5_GuardBeforePublish ==
    Delivered =>
        /\ handler(Truediv(fs, last.msg.topic)).raises = "IsADirectoryError"
        /\ \A i \in 1..Len(last.fired) :
              last.fired[i].h.fn \in Publishing =>
                  \E text \in {TargetText(last.fired[i].h, last.msg.topic)} :
                  \E target \in {MQTTPath(<<text>>, fs.tree)} :
                  \E f \in {last.fired[i]} :
                      /\ f.pubs # <<>> => is_dir(target)
                      /\ (Decoded(f, last.msg.payload) /\ is_dir(target))
                         => /\ f.raises = "" /\ Len(f.pubs) = 1
                            /\ handler(target).raises = "IsADirectoryError"
                      /\ (Decoded(f, last.msg.payload) /\ ~exists(target))
                         => /\ f.raises = "FileNotFoundError" /\ f.target = text
                            /\ f.pubs = <<>>
                            /\ handler(target).raises = "FileNotFoundError"
                      /\ (Decoded(f, last.msg.payload) /\ is_file(target))
                         => /\ f.raises = "NotADirectoryError" /\ f.target = text
                            /\ f.pubs = <<>>

\* a handler found its target Missing and raised FileNotFoundError with it
C5_Witness ==
    \E i \in 1..Len(last.fired) :
        /\ last.fired[i].h.fn \in Publishing
        /\ ~exists(MQTTPath(<<TargetText(last.fired[i].h, last.msg.topic)>>, fs.tree))
        /\ last.fired[i].raises = "FileNotFoundError"
        /\ last.fired[i].pubs = <<>>

\* the nodes of a tree item: each [at, item], at the names from the root
RECURSIVE Nodes(_, _)
Nodes(item, at) ==
    {[at |-> at, item |-> item]}
    \cup UNION {Nodes(item.entries[i][2], Append(at, item.entries[i][1])) :
                  i \in 1..Len(item.entries)}

HasLeafChild(item) == \E i \in 1..Len(item.entries) : ~item.entries[i][2].dir

\* the resolved topic string of the node at the names at
TopicOf(at) == IF at = <<>> THEN <<curdir>> ELSE at

\* C6: on_connect subscribes, once each, to the resolved topic of every
\* Directory node of the tree that has at least one Leaf child and to nothing
\* else: the parent of every Leaf is subscribed, a Directory without a Leaf
\* child is not.
C6_Subscriptions ==
    subscribed # <<>> =>
        /\ Range(subscribed) =
              {TopicOf(n.at) : n \in {m \in Nodes(Trees[fs.tree], <<>>) :
                                         m.item.dir /\ HasLeafChild(m.item)}}
        /\ Len(subscribed) = Cardinality(Range(subscribed))
        /\ \A n \in Nodes(Trees[fs.tree], <<>>) :
              /\ (~n.item.dir /\ n.at # <<>>)
                 => TopicOf(SubSeq(n.at, 1, Len(n.at) - 1)) \in Range(subscribed)
              /\ (n.item.dir /\ ~HasLeafChild(n.item))
                 => TopicOf(n.at) \notin Range(subscribed)

\* on_connect ran over handler_tree: its 18 topics with handlers are
\* subscribed, the publish-only topic stat/onlyfans/POWER is not
C6_Witness ==
    /\ fs.tree = 1
    /\ Len(subscribed) = 18
    /\ <<"stat", PLUG_2, "POWER">> \in Range(subscribed)
    /\ <<"stat", ONLYFANS, "POWER">> \notin Range(subscribed)

\* C7: on_message invokes, for a topic that is a Directory, the handler of
\* every child that classifies as Leaf exactly once, in the order of the
\* Directory, and no other handler.
C7_Dispatch ==
    Delivered =>
        /\ [i \in 1..Len(last.fired) |-> last.fired[i].child] = LeafChildren
        /\ \A i \in 1..Len(last.fired) :
              last.fired[i].h = handler(MQTTPath(<<last.fired[i].child>>, fs.tree)).value

(***************************************************************************)
(* Properties of the path layer and of the cache.                          *)
(***************************************************************************)
Looked == looked

\* the names a path spells out: its text without empty and '.' segments
NamedParts(p) == SelectSeq(Str(p), LAMBDA x : x # "" /\ x # curdir)

\* how many of the names the tree holds, one below the other, from the root
RECURSIVE Consumed(_, _)
Consumed(item, names) ==
    IF names = <<>> \/ ~item.dir THEN 0
    ELSE IF \E i \in 1..Len(item.entries) : item.entries[i][1] = Head(names)
    THEN 1 + Consumed(item.entries[CHOOSE i \in 1..Len(item.entries) :
                                      item.entries[i][1] = Head(names)][2],
                      Tail(names))
    ELSE 0

Depth(p) == Consumed(Trees[p.tree], NamedParts(p))

\* the segments of a path, each a text of one name
Segments(p) == [i \in 1..Len(p.segments) |-> p.segments[i][1]]

C9_CacheTransparent ==
    \A p \in PathInputs :
        /\ check_dir(_kind_cache, p).value = is_dir(p)
        /\ check_file(_kind_cache, p).value = is_file(p)
        /\ check_exists(_kind_cache, p).value = exists(p)
        /\ \E cached \in {Guarded([cache |-> _kind_cache], p, "pub")} :
           \E uncached \in {Guarded([cache |-> {}], p, "pub")} :
              /\ cached.raises = uncached.raises
              /\ cached.pubs = uncached.pubs
              /\ cached.arg = uncached.arg
        /\ \A e \in CacheHits(_kind_cache, p) : e.key.tree = p.tree

\* 'a' was looked up on two trees: a Directory of one, a Leaf of the other
C9_Witness ==
    /\ Cardinality(looked) = 2
    /\ \E e \in _kind_cache : e.key.tree = 5 /\ Str(e.key) = <<"a">> /\ e.kind = DIR
    /\ \E e \in _kind_cache : e.key.tree = 7 /\ Str(e.key) = <<"a">> /\ e.kind = FILE

\* the cache entries lookups of p and q use are the same entry
SharesEntry(p, q) ==
    /\ CacheHits(_kind_cache, p) # {}
    /\ CacheHits(_kind_cache, p) = CacheHits(_kind_cache, q)

Aggregating == {"handle_power", "handle_timer"}

\* the <<aggregator, device>> keys message k of history updated
KeysOf(k) ==
    {<<history[k].fired[j].h.agg, history[k].fired[j].h.device>> :
        j \in {i \in 1..Len(history[k].fired) : history[k].fired[i].h.fn \in Aggregating}}

\* the messages of history update pairwise distinct keys
DistinctKeys ==
    \A k \in 1..Len(history) : \A l \in 1..Len(history) :
        k # l => KeysOf(k) \cap KeysOf(l) = {}

\* the state and the publishes after on_message has run over the messages,
\* one after the other, from the state st
RECURSIVE Replay(_, _, _)
Replay(st, pubs, msgs) ==
    IF msgs = <<>> THEN [st |-> st, pubs |-> pubs]
    ELSE \* on_message, given the state and the message
         (LET after(run) == Replay(run.st, pubs \o run.pubs, Tail(msgs))
          IN  after(on_message(st, 0, fs, Head(msgs))))

FromStart(msgs) ==
    Replay([power |-> [b \in PowerBehaviours |-> PowerStatusInit(b)],
            timer |-> [b \in TimerBehaviours |-> TimerStatusInit(b)],
            cache |-> {}], <<>>, msgs)

\* the messages of history with the k-th and the one after it exchanged
Exchanged(k) ==
    [i \in 1..Len(history) |->
        history[IF i = k THEN k + 1 ELSE IF i = k + 1 THEN k ELSE i].msg]

\* the payloads of the last publish to each topic, as <<topic, payload>>
LastPublished(pubs) ==
    {<<pubs[i].topic, pubs[i].payload>> :
        i \in {j \in 1..Len(pubs) : \A l \in (j + 1)..Len(pubs) : pubs[l].topic # pubs[j].topic}}

\* the invocation f left every entry but that of its device in its table as
\* it was, and every other table
OwnEntryOnly(f) ==
    /\ f.h.fn = "handle_power" =>
          /\ f.after.timer = f.before.timer
          /\ \A b \in PowerBehaviours : \A d \in Members(BehaviourEnum(b)) :
                <<b, d>> # <<f.h.agg, f.h.device>> => f.after.power[b][d] = f.before.power[b][d]
    /\ f.h.fn = "handle_timer" =>
          /\ f.after.power = f.before.power
          /\ \A b \in TimerBehaviours : \A d \in Members(BehaviourEnum(b)) :
                <<b, d>> # <<f.h.agg, f.h.device>> => f.after.timer[b][d] = f.before.timer[b][d]

\* C17: for reports that update pairwise distinct device keys, every order
\* of delivery ends in the same state tables and in the same payload of the
\* last publish of each aggregator (stated for the exchange of any two
\* neighbours of the run, which every reachable run being covered gives for
\* all orders); and an invocation for device d changes the entry of d in its
\* aggregator's table only.
C17_OrderIndependent ==
    /\ \A i \in 1..Len(last.fired) : OwnEntryOnly(last.fired[i])
    /\ DistinctKeys =>
          \E here \in {FromStart([i \in 1..Len(history) |-> history[i].msg])} :
              /\ here.st.power = _power_state
              /\ here.st.timer = _timer_state
              /\ \A k \in 1..(Len(history) - 1) :
                    \E there \in {FromStart(Exchanged(k))} :
                        /\ there.st.power = _power_state
                        /\ there.st.timer = _timer_state
                        /\ LastPublished(there.pubs) = LastPublished(here.pubs)

\* two devices reported the same hour to the timer aggregator, whose target
\* is a Directory: the hour was published last
C17_Witness ==
    /\ Len(history) = 2
    /\ DistinctKeys
    /\ KeysOf(1) = {<<"onlyfans_timer", PLUG_3>>}
    /\ KeysOf(2) = {<<"onlyfans_timer", PLUG_2>>}
    /\ history[1].msg.payload = Bytes(<<"5">>)
    /\ history[2].msg.payload = Bytes(<<"5">>)
    /\ last.pubs = << Publish(TimerStatusTopic("onlyfans_timer"), Bytes(<<"5">>), TRUE) >>
    /\ _timer_state["onlyfans_timer"] = [d \in {PLUG_2, PLUG_3} |-> 5]

(***************************************************************************)
(* Properties of the aggregators whose target is not a Directory.          *)
(***************************************************************************)
\* the invocations of the last message that raised a classification error
\* in an aggregator
Refused ==
    {f \in {last.fired[i] : i \in 1..Len(last.fired)} :
        f.h.fn \in Aggregating /\ f.raises \in ClassificationErrors}

\* the root of the table that has a Directory at every publish target
Wired == MQTTPath(<<>>, 2)

\* the devices an aggregator tracks other than d
Others(b, d) == Members(BehaviourEnum(b)) \ {d}

\* the value of the message is in the entry of the device after f, and in
\* the table the process holds after the message
Stored(f) ==
    /\ f.h.fn = "handle_power" =>
          /\ f.after.power[f.h.agg][f.h.device] = (last.msg.payload = ON)
          /\ _power_state[f.h.agg][f.h.device] = (last.msg.payload = ON)
    /\ f.h.fn = "handle_timer" =>
          /\ f.after.timer[f.h.agg][f.h.device] = IntOf(last.msg.payload)
          /\ _timer_state[f.h.agg][f.h.device] = IntOf(last.msg.payload)

\* the publish of the aggregator's next invocation that finds a Directory,
\* for a report of another device, shows the value f stored: the power
\* aggregator publishes "ON" only if the stored value is on, the timer
\* aggregator an hour only if it is the stored hour
Reflected(f) ==
    /\ f.h.fn = "handle_power" =>
          \A d \in Others(f.h.agg, f.h.device) : \A status \in {ON, OFF} :
              \E next \in {handle_power(f.after, Wired, f.h.agg, d, status)} :
                  /\ next.raises = "" /\ Len(next.pubs) = 1
                  /\ next.pubs[1].payload = ON => last.msg.payload = ON
                  /\ next.st.power[f.h.agg][f.h.device] = (last.msg.payload = ON)
    /\ f.h.fn = "handle_timer" =>
          \A d \in Others(f.h.agg, f.h.device) : \A hours \in 0..1 :
              \E next \in {handle_timer(f.after, Wired, f.h.agg, d,
                                         Bytes(IntChars((IntOf(last.msg.payload) + hours) % 24)))} :
                  /\ next.raises = "" /\ Len(next.pubs) = 1
                  /\ next.pubs[1].payload # Sentinel => hours = 0
                  /\ next.st.timer[f.h.agg][f.h.device] = IntOf(last.msg.payload)

\* C18: an aggregator writes the device's entry before it classifies its
\* target: when the target is Missing or a Leaf the invocation raises the
\* classification error (FileNotFoundError resp. NotADirectoryError) and
\* publishes nothing, the table holds the message's value for the device
\* all the same, and the aggregator's next publish into a Directory shows
\* that value.
C18_StateBeforeGuard ==
    \A f \in Refused :
        /\ f.pubs = <<>>
        /\ f.raises = (IF exists(MQTTPath(<<f.target>>, fs.tree))
                        THEN "NotADirectoryError" ELSE "FileNotFoundError")
        /\ ~is_dir(MQTTPath(<<f.target>>, fs.tree))
        /\ Stored(f)
        /\ Reflected(f)

\* a timer aggregator with a Missing target was handed an hour that is not
\* the seeded one: it raised, and the table changed
C18_Witness ==
    \E f \in Refused :
        /\ f.h.fn = "handle_timer"
        /\ f.raises = "FileNotFoundError"
        /\ f.before.timer[f.h.agg][f.h.device] # IntOf(last.msg.payload)
        /\ f.after.timer[f.h.agg][f.h.device] = IntOf(last.msg.payload)
        /\ last.pubs = <<>>

(***************************************************************************)
(* Properties of the timer aggregators over the reports of a run.          *)
(***************************************************************************)
\* the hours device d reported to the timer aggregator b in the run, the
\* last message included
ReportedHours(b, d) ==
    {IntOf(history[k].msg.payload) :
        k \in {l \in 1..Len(history) :
                 /\ ~IntRaises(history[l].msg.payload)
                 /\ \E j \in 1..Len(history[l].fired) :
                        /\ history[l].fired[j].h.fn = "handle_timer"
                        /\ history[l].fired[j].h.agg = b
                        /\ history[l].fired[j].h.device = d}}

\* the invocations of the last message in which a timer aggregator
\* published an hour
Agreed ==
    {f \in {last.fired[i] : i \in 1..Len(last.fired)} :
        /\ f.h.fn = "handle_timer"
        /\ f.pubs # <<>>
        /\ f.pubs[1].payload # Sentinel}

\* C19: a timer aggregator publishes an hour (not the sentinel) only when
\* every device it tracks has reported at least once in the run and the
\* hours they hold are equal; a value seeded at construction never counts
\* towards an agreement.
C19_NoFalseAgreement ==
    \A f \in Agreed :
        /\ \A d \in Members(BehaviourEnum(f.h.agg)) : ReportedHours(f.h.agg, d) # {}
        /\ \A d \in Members(BehaviourEnum(f.h.agg)) :
              f.after.timer[f.h.agg][d] = IntOf(last.msg.payload)

(***************************************************************************)
(* Properties of the cache over the messages of a run.                     *)
(***************************************************************************)
\* the entries of a cache stored for the text on the tree of fs
StoredFor(cache, text) == {e \in cache : e.key.tree = fs.tree /\ Str(e.key) = text}

\* the kind the text classifies as on the tree of fs
KindOfText(text) ==
    IF ~exists(MQTTPath(<<text>>, fs.tree)) THEN MISSING
    ELSE IF is_dir(MQTTPath(<<text>>, fs.tree)) THEN DIR ELSE FILE

\* what one invocation f of the message l did to the cache: a handler that
\* reaches its guard looks its target up, by check_dir and then, unless it
\* is a Directory, by check_exists
Lookup(l, f) ==
    (f.h.fn \in Publishing /\ Decoded(f, l.msg.payload)) =>
        \E text \in {TargetText(f.h, l.msg.topic)} :
        \E r \in {FsCache(f.before.cache, Truediv(fs, text))} :
            /\ StoredFor(f.before.cache, text) # {} =>
                  /\ f.after.cache = f.before.cache
                  /\ r.walks = 0
                  /\ \A e \in StoredFor(f.before.cache, text) :
                        /\ r.kind = e.kind
                        /\ e.kind = DIR <=> f.pubs # <<>>
                        /\ e.kind = MISSING <=> f.raises = "FileNotFoundError"
                        /\ e.kind = FILE <=> f.raises = "NotADirectoryError"
            /\ StoredFor(f.before.cache, text) = {} =>
                  /\ r.walks = 1
                  /\ r.kind = KindOfText(text)
                  /\ \E e \in f.after.cache \ f.before.cache :
                        /\ f.after.cache = f.before.cache \cup {e}
                        /\ e.key.tree = fs.tree /\ Str(e.key) = text
                        /\ e.kind = KindOfText(text)

\* the cache as the invocations of message l hand it on, from before to after
Handed(l, before, after) ==
    /\ l.fired = <<>> => after = before
    /\ l.fired # <<>> =>
          /\ l.fired[1].before.cache = before
          /\ l.fired[Len(l.fired)].after.cache = after
          /\ \A i \in 1..(Len(l.fired) - 1) : l.fired[i + 1].before.cache = l.fired[i].after.cache
          /\ \A i \in 1..Len(l.fired) :
                /\ l.fired[i].before.cache \subseteq l.fired[i].after.cache
                /\ l.fired[i].h.fn \notin Publishing =>
                      l.fired[i].after.cache = l.fired[i].before.cache
                /\ Lookup(l, l.fired[i])

\* C16: over any sequence of messages, a lookup of a key that is not in the
\* cache computes the kind with one tree walk, stores exactly one entry and
\* returns that kind; a lookup of a key in the cache returns the stored kind
\* with no tree walk and stores nothing; an entry is never removed and never
\* changed: the cache only grows, by at most one entry per lookup.
C16_CacheLifecycle ==
    [][ /\ _kind_cache \subseteq _kind_cache'
        /\ \A e \in _kind_cache' : \A d \in _kind_cache' :
              (e.key.tree = d.key.tree /\ Str(e.key) = Str(d.key)) => e = d
        /\ nmsgs' = nmsgs => _kind_cache' = _kind_cache
        /\ nmsgs' # nmsgs => Handed(last', _kind_cache, _kind_cache')
      ]_vars

\* the last message found the target of a handler in the cache, stored by
\* the message before it
C16_Witness ==
    /\ nmsgs = 2
    /\ Cardinality(_kind_cache) >= 2
    /\ \E i \in 1..Len(last.fired) :
          /\ last.fired[i].h.fn \in Publishing
          /\ StoredFor(last.fired[i].before.cache,
                       TargetText(last.fired[i].h, last.msg.topic)) # {}
          /\ last.fired[i].after.cache = last.fired[i].before.cache

(***************************************************************************)
(* Properties of one MQTTPath object and of the calls made on it.          *)
(***************************************************************************)
Calls == {obj.calls[i] : i \in 1..Len(obj.calls)}

\* the entry names of the Directory a path classifies as
EntryNames(p) == Names(info(p)._children)

\* C11: iterdir() on a path that classifies as Directory yields one child
\* path per entry name of the Directory, in order; on a path that classifies
\* as Leaf it yields the empty sequence and raises nothing; on a path that
\* classifies as Missing it raises an error.
C11_ChildrenByKind ==
    \A c \in Calls :
        c.m = "iterdir" =>
            /\ c.returned
            /\ is_dir(obj.path) =>
                  /\ c.result.raises = ""
                  /\ c.result.value =
                        [i \in 1..Len(EntryNames(obj.path)) |->
                            Truediv(obj.path, <<EntryNames(obj.path)[i]>>)]
            /\ is_file(obj.path) => c.result = [raises |-> "", value |-> <<>>]
            /\ ~exists(obj.path) => c.result.raises # ""

\* the segments of the text of a path other than the empty ones and '.'
WalkedNames(p) == SelectSeq(Str(p), LAMBDA x : x # "" /\ x # curdir)

\* the reference walk: from the item, name by name
RECURSIVE RefWalk(_, _)
RefWalk(item, names) ==
    IF names = <<>> THEN (IF item.dir THEN "Directory" ELSE "Leaf")
    ELSE IF ~item.dir THEN "Missing"
    ELSE IF \A i \in 1..Len(item.entries) : item.entries[i][1] # Head(names) THEN "Missing"
    ELSE RefWalk(item.entries[CHOOSE i \in 1..Len(item.entries) :
                                 item.entries[i][1] = Head(names)][2],
                 Tail(names))

\* the kind an _MQTTPathInfo stands for, if it stands for exactly one
KindsOf(i) ==
    {k \in {"Directory", "Leaf", "Missing"} :
        \/ k = "Directory" /\ i._exists /\ i._is_dir
        \/ k = "Leaf" /\ i._exists /\ i._is_file
        \/ k = "Missing" /\ ~i._exists} \ 
    (IF i._is_dir /\ i._is_file THEN {"Directory", "Leaf"} ELSE {})

\* C14: info of any path returns the classification of the reference walk
\* from the root over the segments of its text other than the empty ones and
\* '.': Missing if a segment is absent from the current Directory or the
\* walk would go through a Leaf, else Directory or Leaf by the final node
\* (the empty path and '.' are the root); exactly one kind, the handler
\* present iff Leaf and the children iff Directory.
C14_ReferenceWalk ==
    \A c \in Calls :
        c.m = "info" =>
            /\ c.returned
            /\ KindsOf(c.result) = {RefWalk(Trees[obj.path.tree], WalkedNames(obj.path))}
            /\ (c.result._handler # None) <=> (KindsOf(c.result) = {"Leaf"})
            /\ (c.result._children # NoItem) <=> (KindsOf(c.result) = {"Directory"})

\* C22: for every path text, with empty segments, '.' or '..' segments, a
\* trailing separator or a leading separator, the split of the text into
\* parts and the walk end: a call that reads the classification returns, and
\* info yields exactly one of Directory, Leaf and Missing.
C22_ClassificationTerminates ==
    \A c \in Calls :
        c.m \in {"info", "exists", "is_dir", "is_file"} =>
            /\ c.returned
            /\ c.m = "info" => Cardinality(KindsOf(c.result)) = 1

\* the calls that returned
Returns == {c \in Calls : c.returned}

\* what a call of m returns for the Resolution i of the object's path
Projection(m, i) ==
    CASE m = "info" -> i
      [] m = "exists" -> i._exists
      [] m = "is_dir" -> i._is_dir
      [] m = "is_file" -> i._is_file
      [] m = "handler" ->
            IF i._is_file THEN [raises |-> "", value |-> i._handler]
            ELSE [raises |-> IF i._is_dir THEN "IsADirectoryError" ELSE "FileNotFoundError",
                  value |-> None]
      [] m = "children" ->
            IF i._is_dir THEN [raises |-> "", value |-> Names(i._children)]
            ELSE [raises |-> IF i._is_file THEN "NotADirectoryError" ELSE "FileNotFoundError",
                  value |-> <<>>]
      [] m = "resolve" -> MQTTPath([k \in 1..Len(i._parts) |-> <<i._parts[k]>>], obj.path.tree)

\* the calls that read the Resolution of the object
Classifying == {c \in Returns : c.m # "iterdir"}

\* C15: the calls on one MQTTPath object, in any number and order, return
\* what one and the same Resolution gives: two calls of the same method
\* return the same result, the results of different methods are those of
\* the Resolution that info returns, and the tree is walked at most once for
\* the object, exactly once as soon as a call has read the Resolution, also
\* when the path is Missing.
C15_MemoizedClassification ==
    /\ obj.walks <= 1
    /\ Classifying # {} => obj.walks = 1 /\ Len(obj._info) = 1
    /\ \A c \in Returns : \A d \in Returns : c.m = d.m => c.result = d.result
    /\ \A c \in Classifying : c.result = Projection(c.m, obj._info[1])
    /\ \A c \in Classifying : obj._info[1]._parts = Parts(normpath(Str(obj.path)))

\* two calls returned on an object whose path is Missing, after one walk
C15_Witness ==
    /\ Cardinality(Classifying) = 2
    /\ \E c \in Classifying : c.m = "exists" /\ c.result = FALSE
    /\ \E c \in Classifying : c.m = "resolve"
    /\ obj.walks = 1

(***************************************************************************)
(* Properties of the time handlers, on the last message.                   *)
(***************************************************************************)
\* the invocations of the last message by a handler of function fn
LastFired(fn) == {last.fired[i] : i \in 1..Len(last.fired)} \cap
                 {f \in {last.fired[i] : i \in 1..Len(last.fired)} : f.h.fn = fn}

\* the texts "H:M" with H in 0..23 and M in 0..59, and what they stand for
Clock == {[text |-> IntChars(h) \o <<":">> \o IntChars(m), h |-> h, m |-> m] :
             h \in 0..23, m \in 0..59}
         \cup {[text |-> <<"0", "7", ":", "0", "5">>, h |-> 7, m |-> 5]}

\* the time of timer n in a payload {"TimerN": {"Time": "H:M"}}, if it is one
ClockOf(payload, n) ==
    {c \in Clock : \E rest \in {payload} :
        /\ rest.k = "obj" /\ HasKey(rest, "Timer" \o IntStr(n))
        /\ Member(rest, "Timer" \o IntStr(n)) = TimeObject(c.text)}

\* C12: the unmarshalling handler of timer N, given a payload whose
\* TimerN.Time is "H:M" with H in 0..23 and M in 0..59 and a target that is a
\* Directory, publishes one retained message to the target with the hour H
\* if M < 30 and (H + 1) mod 24 if M >= 30, an hour in 0..23; "7:35" gives 8
\* and "23:45" gives 0.
C12_UnmarshalRounding ==
    \A f \in LastFired("unmarshal") :
        \A c \in ClockOf(last.msg.payload, f.h.index) :
            is_dir(Truediv(fs, UnmarshalTopicPath(f.h))) =>
                /\ f.raises = ""
                /\ Len(f.pubs) = 1
                /\ f.pubs[1].topic = UnmarshalTopicPath(f.h)
                /\ f.pubs[1].retain
                /\ f.pubs[1].payload =
                      Bytes(IntChars(IF c.m < 30 THEN c.h ELSE (c.h + 1) % 24))
                /\ \E hour \in 0..23 : f.pubs[1].payload = Bytes(IntChars(hour))
                /\ c.text = <<"7", ":", "3", "5">> => f.pubs[1].payload = Bytes(<<"8">>)
                /\ c.text = <<"2", "3", ":", "4", "5">> => f.pubs[1].payload = Bytes(<<"0">>)

\* "23:45" was unmarshalled by a handler of handler_tree and "0" published
C12_Witness ==
    /\ fs.tree = 1
    /\ last.msg.payload = TimerObject(TimeObject(<<"2", "3", ":", "4", "5">>))
    /\ \E f \in LastFired("unmarshal") :
          f.pubs = << Publish(UnmarshalTopicPath(f.h), Bytes(<<"0">>), TRUE) >>

\* a text of the form "<int>:<int>"
IsClockText(text) ==
    \E parts \in {SplitColon(text, <<>>, <<>>)} :
        Len(parts) = 2 /\ IsIntText(parts[1]) /\ IsIntText(parts[2])

\* the payload is no JSON document, or a document that is no object, or an
\* object without the key TimerN, or with a TimerN object without the key
\* Time, or with a Time string that is not of the form "<int>:<int>"
Malformed(payload, n) ==
    IF payload.k # "obj" THEN TRUE
    ELSE IF ~HasKey(payload, "Timer" \o IntStr(n)) THEN TRUE
    ELSE \E timer \in {Member(payload, "Timer" \o IntStr(n))} :
            /\ timer.k = "obj"
            /\ IF ~HasKey(timer, "Time") THEN TRUE
               ELSE \E time \in {Member(timer, "Time")} :
                       time.k = "str" /\ ~IsClockText(time.v)

\* C13: the unmarshalling handler, given a payload that is no JSON, no
\* object, lacks the TimerN or the Time key or has a Time that is not
\* "<int>:<int>", logs, publishes nothing and returns without raising to
\* on_message.
C13_UnmarshalNonFatal ==
    \A f \in LastFired("unmarshal") :
        Malformed(last.msg.payload, f.h.index) =>
            /\ f.raises = ""
            /\ f.logs # <<>>
            /\ f.pubs = <<>>
            /\ last.escaped = ""


\* the slider positions
Slider == 1..24

\* the positions the last message's payload is the text of
PositionOf(payload) == {t \in Slider : payload = Bytes(IntChars(t))}

\* the bytes of {"Time" : "H:59"}
MarshalledTime(h) == TimeObject(IntChars(h) \o <<":", "5", "9">>)

\* what the unmarshalling handler of timer 1 of plug 2 does, on handler_tree,
\* with the payload that holds the time object as its Timer1
FedBack(time) ==
    handle_unmarshal([power |-> _power_state, timer |-> _timer_state, cache |-> {}],
                     MQTTPath(<<>>, 1),
                     [topic |-> <<"stat", PLUG_2, "TIMER">>, payload |-> TimerObject(time)],
                     time_unmarshalled(1, PLUG_2))

\* C20: for a slider position t in 1..24 and a command topic that is a
\* Directory, time_marshalled publishes the time "H:59" with
\* H = (t - 1) mod 24, in 0..23, to 'cmnd/<the incoming topic without its
\* first segment>'; time_unmarshalled, fed that time, publishes the hour
\* t mod 24, which is t for t in 1..23.
C20_MarshalRoundTrip ==
    \A f \in LastFired("time_marshalled") :
        \A t \in PositionOf(last.msg.payload) :
            is_dir(MQTTPath(<< <<"cmnd">> \o Tail(last.msg.topic) >>, fs.tree)) =>
                /\ f.raises = ""
                /\ Len(f.pubs) = 1
                /\ f.pubs[1].topic = <<"cmnd">> \o Tail(last.msg.topic)
                /\ f.pubs[1].payload = MarshalledTime((t - 1) % 24)
                /\ (t - 1) % 24 \in 0..23
                /\ \E back \in {FedBack(f.pubs[1].payload)} :
                      /\ back.raises = ""
                      /\ Len(back.pubs) = 1
                      /\ back.pubs[1].payload = Bytes(IntChars(t % 24))
                      /\ t \in 1..23 => IntOf(back.pubs[1].payload) = t

\* position 24 was marshalled on handler_tree: "23:59" went to the command
\* topic, and unmarshalling it gives 0
C20_Witness ==
    /\ fs.tree = 1
    /\ last.msg.payload = Bytes(<<"2", "4">>)
    /\ \E f \in LastFired("time_marshalled") :
          /\ f.pubs = << Publish(<<"cmnd">> \o Tail(last.msg.topic), MarshalledTime(23), FALSE) >>
          /\ FedBack(f.pubs[1].payload).pubs =
                << Publish(UnmarshalTopicPath(time_unmarshalled(1, PLUG_2)), Bytes(<<"0">>), TRUE) >>


(***************************************************************************)
(* Properties of handler_tree with the broker delivering back.             *)
(***************************************************************************)
\* the handlers wired under the subscribed topics, each with its topic
WiredHandlers ==
    UNION {{[topic |-> subscribed[k], h |-> handler(c).value] :
               c \in {d \in Range(iterdir(Truediv(fs, subscribed[k])).value) : is_file(d)}} :
           k \in 1..Len(subscribed)}

\* nothing is in flight
Quiescent == broker.queue = <<>>

\* no topic was delivered twice since the last message from outside
NoRetrigger ==
    \A i \in 1..Len(broker.cascade) : \A j \in 1..Len(broker.cascade) :
        broker.cascade[i] = broker.cascade[j] => i = j

\* C21: on handler_tree, with the broker delivering back every published
\* message whose topic is subscribed, a well-formed message from outside on
\* any subscribed topic sets off finitely many deliveries: every delivery
\* adds its topic to the cascade, no topic is delivered twice in one
\* cascade, and the deliveries made and those still in flight are never
\* more than three together, so that nothing is in flight after the third
\* at the latest.  No handler raises and the network loop goes on; the
\* publish target of every wired handler is a Directory.
C21_CascadeQuiesces ==
    /\ running /\ last.escaped = ""
    /\ \A i \in 1..Len(last.fired) : last.fired[i].raises = ""
    /\ \A w \in WiredHandlers :
          w.h.fn \in Publishing => is_dir(MQTTPath(<<TargetText(w.h, w.topic)>>, fs.tree))
    /\ NoRetrigger
    /\ Len(broker.cascade) + Len(broker.queue) <= 3
    /\ Len(broker.cascade) < MaxCascade
    /\ Len(broker.cascade) = 3 => Quiescent

\* a timer report to 'stat/tasmota-plug-2/TIMER' went through retain, the
\* unmarshalling handler and the timer aggregator, whose publish is not
\* delivered back
C21_Witness ==
    /\ broker.cascade = << <<"stat", PLUG_2, "TIMER">>,
                           <<"stat", PLUG_2, "TIMER", "retained">>,
                           <<"stat", PLUG_2, "TIMER1", "unmarshalled">> >>
    /\ Quiescent
    /\ last.pubs = << Publish(TimerStatusTopic("onlyfans_timer"), Sentinel, TRUE) >>

=============================================================================
